---- MODULE Spec2Model ----
(***************************************************************************)
(* Reconstruction of bank-transaction records from statement text.         *)
(*                                                                         *)
(*   analyzer.py          AccountStatementAnalyzer.parse_transactions and  *)
(*                        load_data            (specification Spec)        *)
(*   statement_parser.py  _parse_transactions_from_text, to_dataframe      *)
(*                                              (specification SpecSP)     *)
(*   date resolution of both files              (specification SpecDate)   *)
(*                                                                         *)
(* A line of text is a sequence of tokens separated by white space.  A     *)
(* token is a word, a decimal amount (what [\d,]+\.\d{2} matches), or a    *)
(* date (what \d{2}/\d{2}/\d{2} matches).  Amounts are counted in whole    *)
(* units; a date token keeps its three two-digit fields.                   *)
(***************************************************************************)
EXTENDS Integers, Sequences, FiniteSets, TLC

VARIABLES
    current_transaction,  \* analyzer.py: the open record, <<>> for None
    transactions,         \* analyzer.py: records closed in the text being parsed
    all_transactions,     \* analyzer.py load_data: records of the texts parsed so far
    df,                   \* analyzer.py load_data: self.df, <<>> until it is built
    df_index,             \* index labels of self.df after sort_values (source positions)
    current,              \* statement_parser.py: the open row, <<>> for None
    sp_transactions,      \* statement_parser.py: rows closed in the text being parsed
    all_txns,             \* statement_parser.py parse_pdfs: rows of the texts parsed so far
    frame,                \* statement_parser.py: what to_dataframe returns, <<>> before
    frame_index,          \* index labels of the frame after sort_values (source positions)
    pc,                   \* "parse" while the texts are read, then "loaded" or "empty"
    texts,                \* the texts read so far, each the lines consumed from it
    reading,              \* TRUE while the lines of the last text are being consumed
    date_str,             \* a DD/MM/YY string handed to one of the date conversions
    resolver,             \* the conversion applied to date_str, "" before
    resolved,             \* its result: <<date>>, or <<>> for no date (None, NaT, raise)
    stmt_rows,            \* statement_parser.py load_statement: rows, before _dedupe_and_clean
    out,                  \* statement_parser.py _dedupe_and_clean: the list it returns
    all_sheets,           \* dashboard.py load_xlsx_all_sheets: the sheets of the workbook
    sheet_index,          \* the number of sheets the loop has gone through
    header_names,         \* the column names of the first sheet, <<>> for None
    loaded,               \* the processed frames of the sheets that gave rows
    contributed,          \* for each sheet gone through, the rows it gave to loaded
    data_df,              \* the frame given to _normalize_columns, as <<frame>>
    norm,                 \* what _normalize_columns returned, <<>> for None
    merged,               \* what _merge_narration_rows returned, as <<frame>>
    combined,             \* build_dataframe_from_xlsx: the sorted rows, <<>> before
    found_col,            \* _normalize_columns: date_col, narr_col, debit_col, credit_col,
                          \* balance_col, each <<name>> or <<>> for None; <<>> before
    uploaded_files,       \* build_dataframe_from_xlsx: the workbooks uploaded
    file_index,           \* the number of workbooks the loop has opened
    all_dfs,              \* build_dataframe_from_xlsx: the frames of the workbooks so far
    narration,            \* dashboard.py: the narration of one row of the dashboard's frame
    upi_customer_id,      \* main: that column of the row, <<>> for None or not yet set
    neft_customer_id,     \* main: that column of the row, <<>> for None or not yet set
    imps_customer_id,     \* main: that column of the row, <<>> for None or not yet set
    cost_head,            \* main: the cost_head column of the row, <<>> before
    page_df,              \* main: df, the rows of the frame the pages are drawn from
    total_expense,        \* main, Summary page: total_expense, <<>> before
    cost_totals,          \* main, Expense page: cost_totals by cost head, <<>> before
    cost_heads            \* analyzer.py categorize_expenses: the dict returned, by cost head

analyzer_vars == <<current_transaction, transactions, all_transactions, df, df_index>>

parser_vars == <<current, sp_transactions, all_txns, frame, frame_index>>

input_vars == <<texts, reading>>

date_vars == <<date_str, resolver, resolved>>

dedupe_vars == <<stmt_rows, out>>

\* the variables of the text reconstruction and of the date conversions
text_vars == <<analyzer_vars, parser_vars, input_vars, date_vars>>

\* the variables of the other functions
file_vars == <<uploaded_files, file_index, all_dfs>>

xlsx_vars == <<all_sheets, sheet_index, header_names, loaded, contributed,
               data_df, norm, merged, combined, found_col, file_vars>>

\* the variables of the pages of the dashboard
page_vars == <<narration, upi_customer_id, neft_customer_id, imps_customer_id, cost_head,
               page_df, total_expense, cost_totals, cost_heads>>

other_vars == <<dedupe_vars, xlsx_vars, page_vars>>

vars == <<text_vars, pc, other_vars>>

----------------------------------------------------------------------------
(* Bounds *)

MaxLines == 3

----------------------------------------------------------------------------
(* Tokens and lines *)

W(s) == [k |-> "w", s |-> s, n |-> 0]
A(n) == [k |-> "a", s |-> "", n |-> n]
D(dd, mm, yy) == [k |-> "d", s |-> "", n |-> dd * 10000 + mm * 100 + yy]

DD(tok) == tok.n \div 10000
MM(tok) == (tok.n \div 100) % 100
YY(tok) == tok.n % 100

IsAmt(tok) == tok.k = "a"
IsDate(tok) == tok.k = "d"

HasText(line, marker) == \E i \in 1..Len(line) : line[i].k = "w" /\ line[i].s = marker

\* re.findall(amount_pattern, line): the amount tokens, left to right
FindAmounts(line) == SelectSeq(line, IsAmt)

\* re.match(date_pattern, line): a date token at the start, white space after it
\* (the line is stripped, so white space is followed by another token)
DateMatch(line) == Len(line) >= 2 /\ IsDate(line[1])

Last(seq) == seq[Len(seq)]
Front(seq) == SubSeq(seq, 1, Len(seq) - 1)

\* a text is what text.split(' ') gives, and '' is <<>>: the empty word stands
\* between two blanks that follow one another, before a blank at the start
\* and after a blank at the end, so <<W("A"), Gap, W("X")>> is 'A  X'
Gap == W("")

\* text.strip()
StripBlanks(text) ==
    LET full == {i \in 1..Len(text) : text[i] # Gap}
    IN IF full = {} THEN <<>>
       ELSE SubSeq(text, CHOOSE i \in full : \A j \in full : i <= j,
                         CHOOSE i \in full : \A j \in full : j <= i)

\* re.sub(r"\s+", " ", text).strip()
Collapse(text) == SelectSeq(text, LAMBDA tok : tok # Gap)

\* text + ' ' + more
Join(text, more) ==
    (IF text = <<>> THEN <<Gap>> ELSE text) \o (IF more = <<>> THEN <<Gap>> ELSE more)

----------------------------------------------------------------------------
(* Python strings: positions count from 0, find returns -1 for no match *)

\* list(f): the sequence f with its elements worked out
List(f) == f \o <<>>

Min(a, b) == IF a < b THEN a ELSE b
Max(a, b) == IF a < b THEN b ELSE a

\* s[i:j] for 0 <= i
Slice(s, i, j) == SubSeq(s, i + 1, Min(j, Len(s)))

\* s[i:i+1]: the character at position i, '' past the end
CharAt(s, i) == Slice(s, i, i + 1)

\* s.startswith(prefix)
StartsWith(s, prefix) == Len(prefix) <= Len(s) /\ Slice(s, 0, Len(prefix)) = prefix

\* sub in s
Contains(s, sub) ==
    \E i \in 0..(Len(s) - Len(sub)) : Slice(s, i, i + Len(sub)) = sub

\* s.find(sub, start)
Find(s, sub, start) ==
    LET hits == {i \in start..(Len(s) - Len(sub)) : Slice(s, i, i + Len(sub)) = sub}
    IN IF hits = {} THEN -1 ELSE CHOOSE i \in hits : \A j \in hits : i <= j

\* s.strip(): the blanks at both ends are removed
Strip(s) ==
    LET inside == {i \in 0..(Len(s) - 1) : CharAt(s, i) # " "}
    IN IF inside = {} THEN ""
       ELSE Slice(s, CHOOSE i \in inside : \A j \in inside : i <= j,
                     (CHOOSE i \in inside : \A j \in inside : j <= i) + 1)

UpperCase == "ABCDEFGHIJKLMNOPQRSTUVWXYZ"
LowerCase == "abcdefghijklmnopqrstuvwxyz"

\* the character of table `to` at the place c has in table `from`, else c
Translate(c, from, to) ==
    LET i == Find(from, c, 0) IN IF i = -1 THEN c ELSE CharAt(to, i)

\* the characters of s from position i on, each translated
RECURSIVE MapCase(_, _, _, _)
MapCase(s, i, from, to) ==
    IF i >= Len(s) THEN ""
    ELSE Translate(CharAt(s, i), from, to) \o MapCase(s, i + 1, from, to)

\* s.upper() and s.lower()
Upper(s) == MapCase(s, 0, LowerCase, UpperCase)
Lower(s) == MapCase(s, 0, UpperCase, LowerCase)

DecimalDigits == "0123456789"

\* str(n) for a natural number n
RECURSIVE NatStr(_)
NatStr(n) ==
    IF n < 10 THEN CharAt(DecimalDigits, n)
    ELSE NatStr(n \div 10) \o CharAt(DecimalDigits, n % 10)

\* the two digits of a day, month or year of a DD/MM/YY string
TwoDigits(n) == CharAt(DecimalDigits, n \div 10) \o CharAt(DecimalDigits, n % 10)

----------------------------------------------------------------------------
(* Calendar dates *)

MkDate(y, m, d) == [year |-> y, month |-> m, day |-> d]

IsLeap(y) == (y % 4 = 0 /\ y % 100 # 0) \/ y % 400 = 0

DaysIn(y, m) ==
    IF m \in {4, 6, 9, 11} THEN 30
    ELSE IF m = 2 THEN (IF IsLeap(y) THEN 29 ELSE 28)
    ELSE 31

ValidYMD(y, m, d) == m \in 1..12 /\ d >= 1 /\ d <= DaysIn(y, m)

\* %y of strptime: 00..68 are 2000..2068 and 69..99 are 1969..1999
PivotYear(yy) == IF yy <= 68 THEN 2000 + yy ELSE 1900 + yy

\* datetime.strptime(date_str, '%d/%m/%y') succeeds
StrptimeOk(tok) == ValidYMD(PivotYear(YY(tok)), MM(tok), DD(tok))

Strptime(tok) == MkDate(PivotYear(YY(tok)), MM(tok), DD(tok))

\* if trans_date.year < 2000: trans_date.replace(year = trans_date.year + 100)
\* (replace raises ValueError when the day does not exist in the new year)
CenturyOk(dt) == dt.year >= 2000 \/ ValidYMD(dt.year + 100, dt.month, dt.day)

AddCentury(dt) == IF dt.year < 2000 THEN MkDate(dt.year + 100, dt.month, dt.day) ELSE dt

\* analyzer.py lines 84-88: the try block does not raise on the date
AnalyzerDateOk(tok) == StrptimeOk(tok) /\ CenturyOk(Strptime(tok))

AnalyzerDate(tok) == AddCentury(Strptime(tok))

DateLE(a, b) ==
    \/ a.year < b.year
    \/ a.year = b.year /\ a.month < b.month
    \/ a.year = b.year /\ a.month = b.month /\ a.day <= b.day

----------------------------------------------------------------------------
(* analyzer.py: AccountStatementAnalyzer.parse_transactions, one line *)

\* desc_line.rfind(amt): the last position of the amount's text, 0 for -1
RFind(desc, amt) ==
    LET hits == {i \in 1..Len(desc) : IsAmt(desc[i]) /\ desc[i].n = amt.n}
    IN IF hits = {} THEN 0 ELSE CHOOSE i \in hits : \A j \in hits : j <= i

\* for amt in reversed(amounts): cut desc_line at the last occurrence of amt
\* and strip what is left
RECURSIVE StripAmounts(_, _)
StripAmounts(desc, amounts) ==
    IF amounts = <<>> THEN desc
    ELSE LET last_pos == RFind(desc, Last(amounts))
         IN StripAmounts(IF last_pos # 0 THEN StripBlanks(SubSeq(desc, 1, last_pos - 1))
                         ELSE desc,
                         Front(amounts))

\* lines 66-71: header and boilerplate lines are skipped
AnalyzerSkips(line) ==
    \/ line = <<>>
    \/ HasText(line, "Date") /\ HasText(line, "Narration") /\ HasText(line, "Withdrawal")
    \/ HasText(line, "Statement of account")
    \/ HasText(line, "Account Branch")
    \/ line[1] = W("Page No")

\* lines 93-141: the record a date-led line with two or more amounts opens
NewTransaction(line, amounts) ==
    LET n == Len(amounts)
    IN [date |-> AnalyzerDate(line[1]),
        description |-> StripAmounts(StripBlanks(Tail(line)), amounts),
        debit |-> IF n = 2 THEN 0 ELSE amounts[n - 1].n,
        credit |-> IF n = 2 THEN 0 ELSE amounts[n - 2].n,
        balance |-> amounts[n].n,
        transaction_amt |-> IF n = 2 THEN <<amounts[1].n>> ELSE <<>>,
        raw_line |-> line]

\* lines 156-168: a continuation line with two or more amounts
AmountContinuation(cur, amounts) ==
    LET n == Len(amounts)
    IN IF n = 2
       THEN [cur EXCEPT !.balance = amounts[n].n, !.transaction_amt = <<amounts[1].n>>]
       ELSE [cur EXCEPT !.balance = amounts[n].n,
                        !.debit = amounts[n - 1].n, !.credit = amounts[n - 2].n]

\* line 145 / 171: description += ' ' + line
AppendLine(rec, line) == [rec EXCEPT !.description = Join(rec.description, line)]

\* lines 78-79: the open record is appended when a date-led line arrives
Closed(trs, cur) == IF cur # <<>> THEN trs \o cur ELSE trs

\* lines 60-171, one iteration: the (transactions, current_transaction) after the line
AnalyzerStep(trs, cur, line) ==
    IF AnalyzerSkips(line) THEN <<trs, cur>>
    ELSE IF DateMatch(line)
    THEN LET trs1 == Closed(trs, cur)
             amounts == FindAmounts(line)
         IN IF ~AnalyzerDateOk(line[1])
            THEN <<trs1, <<>>>>                         \* except: current = None
            ELSE IF Len(amounts) >= 2
            THEN <<trs1, <<NewTransaction(line, amounts)>>>>
            ELSE \* lines 143-146: the record appended above is the same object
                 IF cur # <<>>
                 THEN <<Front(trs1) \o <<AppendLine(cur[1], line)>>, <<>>>>
                 ELSE <<trs1, <<>>>>
    ELSE IF cur = <<>> THEN <<trs, cur>>
    ELSE LET amounts == FindAmounts(line)
         IN IF Len(amounts) >= 2
            THEN <<trs, <<AmountContinuation(cur[1], amounts)>>>>
            ELSE <<trs, <<AppendLine(cur[1], line)>>>>

----------------------------------------------------------------------------
(* analyzer.py lines 177-201: the second pass *)

Abs(x) == IF x < 0 THEN -x ELSE x

\* BackFill with the amount token taken for the amount whatever the balances are
BackFillTokenAmount(trans, prev_balance) ==
    IF trans.transaction_amt # <<>> /\ trans.debit = 0 /\ trans.credit = 0
    THEN LET amt == trans.transaction_amt[1]
             filled ==
                 IF prev_balance # <<>> /\ trans.balance - prev_balance[1] >= 0
                 THEN [trans EXCEPT !.credit = amt]
                 ELSE [trans EXCEPT !.debit = amt]
         IN [filled EXCEPT !.transaction_amt = <<>>]
    ELSE trans

\* lines 182-196 for one record; prev_balance is <<>> for None
BackFill(trans, prev_balance) ==
    IF trans.transaction_amt # <<>> /\ trans.debit = 0 /\ trans.credit = 0
    THEN LET filled ==
                 IF prev_balance # <<>>
                 THEN LET balance_change == trans.balance - prev_balance[1]
                      IN IF balance_change < 0
                         THEN [trans EXCEPT !.debit = Abs(balance_change)]
                         ELSE [trans EXCEPT !.credit = Abs(balance_change)]
                 ELSE [trans EXCEPT !.debit = trans.transaction_amt[1]]
         IN [filled EXCEPT !.transaction_amt = <<>>]       \* del trans['transaction_amt']
    ELSE trans

RECURSIVE SecondPassFrom(_, _)
SecondPassFrom(trs, prev_balance) ==
    IF trs = <<>> THEN <<>>
    ELSE <<BackFill(Head(trs), prev_balance)>>
         \o SecondPassFrom(Tail(trs), <<Head(trs).balance>>)

SecondPass(trs) == SecondPassFrom(trs, <<>>)

\* lines 173-201: what parse_transactions returns at the end of the text
ParseResult(trs, cur) == SecondPass(Closed(trs, cur))

----------------------------------------------------------------------------
(* analyzer.py lines 203-225: load_data *)

Perms(n) == {p \in [1..n -> 1..n] : \A i, j \in 1..n : i # j => p[i] # p[j]}

\* sort_values('date') with the default kind, 'quicksort', which is not stable
\* (numpy's introsort already reorders 18 rows of one date): any order of the
\* rows in which the dates do not decrease
SortOrders(rows) ==
    {p \in Perms(Len(rows)) :
        \A i, j \in 1..Len(rows) : i < j => DateLE(rows[p[i]].date, rows[p[j]].date)}

Reorder(rows, p) == [i \in 1..Len(rows) |-> rows[p[i]]]

----------------------------------------------------------------------------
(* statement_parser.py: _parse_transactions_from_text, one line *)

\* lines 187-190: boilerplate and header lines are skipped
ParserSkips(line) ==
    \/ line = <<>>
    \/ HasText(line, "Statement of account")
    \/ HasText(line, "Page No")
    \/ HasText(line, "Account Branch")
    \/ HasText(line, "Date") /\ HasText(line, "Narration") /\ HasText(line, "Closing")

\* _clean_amount on a cell: '' is 0.0, an amount string is its value
CleanAmount(cell) == IF cell = <<>> THEN 0 ELSE cell[1]

\* lines 207-213: the single amount of a two-token line goes to the withdrawal
\* column when it is larger than the balance, else to the deposit column
TwoTokenWithdrawn(a0, a1) == IF a0.n > a1.n THEN <<a0.n>> ELSE <<>>

TwoTokenDeposit(a0, a1) == IF a0.n > a1.n THEN <<>> ELSE <<a0.n>>

\* lines 198-229: the row a date-led line with at least one amount opens;
\* the amount cells are strings: <<>> for '' and <<n>> for the digits of n
ParserNewRow(line, amounts) ==
    LET n == Len(amounts)
    IN [Date |-> line[1],
        Narration |-> Collapse(StripAmounts(StripBlanks(Tail(line)), amounts)),
        Ref |-> <<>>,
        ValueDt |-> line[1],
        Withdrawn |-> IF n >= 3 THEN <<amounts[n - 2].n>>
                      ELSE IF n = 2 THEN TwoTokenWithdrawn(amounts[1], amounts[2])
                      ELSE <<>>,
        Deposit |-> IF n >= 3 THEN <<amounts[n - 1].n>>
                    ELSE IF n = 2 THEN TwoTokenDeposit(amounts[1], amounts[2])
                    ELSE <<>>,
        Balance |-> <<amounts[n].n>>]

\* lines 236-246: a continuation line with two or more amounts
ParserAmountContinuation(cur, line, amounts) ==
    LET n == Len(amounts)
        rest == StripAmounts(line, amounts)
        row == [cur EXCEPT !.Balance = <<amounts[n].n>>,
                           !.Narration = Join(cur.Narration, rest)]
    IN IF n >= 3
       THEN [row EXCEPT !.Withdrawn = <<amounts[n - 2].n>>,
                        !.Deposit = <<amounts[n - 1].n>>]
       ELSE row

\* line 248: the whole line is appended to the narration
ParserAppendLine(cur, line) == [cur EXCEPT !.Narration = Join(cur.Narration, line)]

\* lines 193-194: the open row is appended when a date-led line arrives
\* (its balance cell is never empty: a row is opened only with an amount)
ParserClosed(trs, cur) ==
    IF cur # <<>> /\ cur[1].Balance # <<>> THEN trs \o cur ELSE trs

\* lines 186-248, one iteration: the (transactions, current) after the line
ParserStep(trs, cur, line) ==
    IF ParserSkips(line) THEN <<trs, cur>>
    ELSE IF DateMatch(line)
    THEN LET trs1 == ParserClosed(trs, cur)
             amounts == FindAmounts(Tail(line))
         IN IF Len(amounts) >= 1
            THEN <<trs1, <<ParserNewRow(line, amounts)>>>>
            ELSE <<trs1, <<>>>>
    ELSE IF cur = <<>> THEN <<trs, cur>>
    ELSE LET amounts == FindAmounts(line)
         IN IF Len(amounts) >= 2
            THEN <<trs, <<ParserAmountContinuation(cur[1], line, amounts)>>>>
            ELSE <<trs, <<ParserAppendLine(cur[1], line)>>>>

----------------------------------------------------------------------------
(* statement_parser.py: _dedupe_and_clean and to_dataframe *)

\* the text of a token: a word, an amount such as 1.00, a date such as 01/04/23
TokenStr(tok) ==
    IF IsAmt(tok) THEN NatStr(tok.n) \o ".00"
    ELSE IF IsDate(tok)
    THEN TwoDigits(DD(tok)) \o "/" \o TwoDigits(MM(tok)) \o "/" \o TwoDigits(YY(tok))
    ELSE tok.s

\* the narration string of a row: its tokens with one blank between them
RECURSIVE NarrationStr(_)
NarrationStr(text) ==
    IF text = <<>> THEN ""
    ELSE IF Len(text) = 1 THEN TokenStr(text[1])
    ELSE TokenStr(text[1]) \o " " \o NarrationStr(Tail(text))

NarrationKeyLen == 80

\* r.get(COL_NARRATION)[:80]
NarrationPrefix(text) == Slice(NarrationStr(text), 0, NarrationKeyLen)

\* the key with the whole narration in place of its first 80 characters
DedupeKeyWholeNarration(r) == <<r.Date, NarrationStr(r.Narration), r.Balance>>

DedupeKey(r) == <<r.Date, NarrationPrefix(r.Narration), r.Balance>>

\* DedupeFrom with the key (date, first 80 characters of the narration)
RECURSIVE DedupeFromNoBalance(_, _)
DedupeFromNoBalance(rows, seen) ==
    IF rows = <<>> THEN <<>>
    ELSE IF <<Head(rows).Date, NarrationPrefix(Head(rows).Narration)>> \in seen
    THEN DedupeFromNoBalance(Tail(rows), seen)
    ELSE <<Head(rows)>>
         \o DedupeFromNoBalance(Tail(rows),
                seen \cup {<<Head(rows).Date, NarrationPrefix(Head(rows).Narration)>>})

\* lines 266-272: the loop over the rows, with the keys seen so far
RECURSIVE DedupeFrom(_, _)
DedupeFrom(rows, seen) ==
    IF rows = <<>> THEN <<>>
    ELSE IF DedupeKey(Head(rows)) \in seen
    THEN DedupeFrom(Tail(rows), seen)
    ELSE <<Head(rows)>> \o DedupeFrom(Tail(rows), seen \cup {DedupeKey(Head(rows))})

DedupeAndClean(rows) == DedupeFrom(rows, {})

\* pd.to_datetime(format="%d/%m/%y", errors="coerce"): <<>> is NaT
ToDatetime(tok) == IF StrptimeOk(tok) THEN <<Strptime(tok)>> ELSE <<>>

\* _parse_date on a DD/MM/YY string: the first format parses it or none does;
\* a ValueError of replace is caught like one of strptime; <<>> is None
ParseDate(tok) ==
    IF StrptimeOk(tok) /\ CenturyOk(Strptime(tok)) THEN <<AddCentury(Strptime(tok))>> ELSE <<>>

\* lines 281-285: the typed row of the frame
TypedRow(r) ==
    [Date |-> ToDatetime(r.Date),
     Narration |-> r.Narration,
     Ref |-> r.Ref,
     ValueDt |-> ToDatetime(r.ValueDt),
     Withdrawn |-> CleanAmount(r.Withdrawn),
     Deposit |-> CleanAmount(r.Deposit),
     Balance |-> CleanAmount(r.Balance)]

\* sort_values(COL_DATE), default kind and na_position: the dated rows in any
\* order in which the dates do not decrease, then the NaT rows in their order
FrameOrders(rows) ==
    {p \in Perms(Len(rows)) :
        \A i, j \in 1..Len(rows) : i < j =>
            LET a == rows[p[i]].Date
                b == rows[p[j]].Date
            IN \/ a # <<>> /\ b = <<>>
               \/ a # <<>> /\ b # <<>> /\ DateLE(a[1], b[1])
               \/ a = <<>> /\ b = <<>> /\ p[i] < p[j]}

----------------------------------------------------------------------------
(* dashboard.py: cells and frames of a spreadsheet *)

\* a cell is empty (NaN), a string, a number or a timestamp
NaN == [k |-> "nan", s |-> "", n |-> 0]
Str(s) == [k |-> "str", s |-> s, n |-> 0]
Num(n) == [k |-> "num", s |-> "", n |-> n]
Ts(y, m, d) == [k |-> "ts", s |-> "", n |-> y * 10000 + m * 100 + d]

\* pd.isna(v), pd.notna(v)
IsNa(cell) == cell.k = "nan"
NotNa(cell) == ~IsNa(cell)

\* str(v): nan, the string, a float such as 5.0, a timestamp such as
\* 2023-04-01 00:00:00
CellStr(cell) ==
    IF cell.k = "nan" THEN "nan"
    ELSE IF cell.k = "str" THEN cell.s
    ELSE IF cell.k = "num" THEN NatStr(cell.n) \o ".0"
    ELSE NatStr(cell.n \div 10000) \o "-" \o TwoDigits((cell.n \div 100) % 100) \o "-"
         \o TwoDigits(cell.n % 100) \o " 00:00:00"

\* a frame has column names and rows of cells, one cell for each column
Frame(columns, rows) == [columns |-> columns, rows |-> rows]

\* the positions of the columns called name, left to right
Where(columns, name) ==
    LET Named(i) == columns[i] = name
    IN SelectSeq([i \in 1..Len(columns) |-> i], Named)

HasColumn(columns, name) == \E i \in 1..Len(columns) : columns[i] = name

\* row.get(name) where no two columns have the same name: None is like NaN
Get(columns, row, name) ==
    IF HasColumn(columns, name) THEN row[Where(columns, name)[1]] ELSE NaN

\* row[name] = cell
Put(columns, row, name, cell) ==
    List([i \in 1..Len(row) |-> IF columns[i] = name THEN cell ELSE row[i]])

----------------------------------------------------------------------------
(* dashboard.py lines 17-25 and 130-186: the column normalizer *)

EXPECTED_COLUMNS ==
    [date |-> <<"Date", "date", "DATE">>,
     narration |-> <<"Narration", "narration", "NARRATION">>,
     chq_ref |-> <<"Chq./Ref.No.", "Chq./Ref.No", "Chq/Ref.No.", "Ref No">>,
     value_dt |-> <<"Value Dt", "Value Dt.", "Value Date", "value dt">>,
     withdrawn |-> <<"Withdrawal Amt.", "Withdrawal Amt", "Withdrawn Amt.", "Withdrawn Amt",
                     "Withdrawal", "Debit">>,
     deposit |-> <<"Deposit Amt.", "Deposit Amt", "Deposit", "Credit">>,
     balance |-> <<"Closing Balance", "Closing Bal", "Balance">>]

\* _normalize: strip and lowercase
Normalize(s) == Lower(Strip(s))

\* line 143: key == col_norm or key in col_norm or col_norm in key
AliasMatches(key, col_norm) ==
    key = col_norm \/ Contains(col_norm, key) \/ Contains(key, col_norm)

\* _find_column: for the first alias that any column matches, the first
\* column that matches it; <<>> for None
FindColumn(columns, aliases) ==
    LET col_normalized == List([i \in 1..Len(columns) |-> Normalize(columns[i])])
        keys == List([a \in 1..Len(aliases) |-> Normalize(aliases[a])])
        hits == {h \in (1..Len(aliases)) \X (1..Len(columns)) :
                    AliasMatches(keys[h[1]], col_normalized[h[2]])}
    IN IF hits = {} THEN <<>>
       ELSE LET first == CHOOSE h \in hits :
                             \A g \in hits : h[1] < g[1] \/ (h[1] = g[1] /\ h[2] <= g[2])
            IN <<columns[first[2]]>>

\* the standard names in the order _normalize_columns looks them up, and the
\* alias list of each
StandardNames == <<"date", "narration", "debit", "credit", "balance">>

AliasesOf(k) ==
    <<EXPECTED_COLUMNS.date, EXPECTED_COLUMNS.narration, EXPECTED_COLUMNS.withdrawn,
      EXPECTED_COLUMNS.deposit, EXPECTED_COLUMNS.balance>>[k]

\* lines 160-176: date_col, narr_col, debit_col, credit_col, balance_col
FoundColumns(columns) ==
    List([k \in 1..Len(StandardNames) |-> FindColumn(columns, AliasesOf(k))])

\* lines 160-178: mapping[col], the standard name assigned last to the column
\* col; <<>> when it is not a key of the mapping
Mapping(found, col) ==
    LET ks == {k \in 1..Len(found) : found[k] = <<col>>}
    IN IF ks = {} THEN <<>>
       ELSE <<StandardNames[CHOOSE k \in ks : \A l \in ks : l <= k]>>

\* df.rename(columns=mapping).columns
Renamed(columns, found) ==
    List([i \in 1..Len(columns) |->
             IF Mapping(found, columns[i]) = <<>> THEN columns[i]
             ELSE Mapping(found, columns[i])[1]])

\* lines 180-181: required.issubset(set(mapping.values()))
RequiredMapped(columns, found) ==
    \A name \in {"date", "debit", "credit"} :
        \E i \in 1..Len(columns) : Mapping(found, columns[i]) = <<name>>

\* lines 185-186: the positions out[use] selects, standard name by standard name
RECURSIVE UsePositions(_, _)
UsePositions(renamed, k) ==
    IF k > Len(StandardNames) THEN <<>>
    ELSE Where(renamed, StandardNames[k]) \o UsePositions(renamed, k + 1)

\* lines 184-186: out[use] for the renamed columns
Project(table, renamed, pos) ==
    Frame(List([k \in 1..Len(pos) |-> renamed[pos[k]]]),
          List([r \in 1..Len(table.rows) |->
                   List([k \in 1..Len(pos) |-> table.rows[r][pos[k]]])]))

\* lines 180-186 for the columns found
NormalizeFound(table, found) ==
    IF ~RequiredMapped(table.columns, found) THEN <<>>
    ELSE LET renamed == Renamed(table.columns, found)
         IN <<Project(table, renamed, UsePositions(renamed, 1))>>

\* _normalize_columns: <<>> for None, else the frame of the standard columns
NormalizeColumns(table) == NormalizeFound(table, FoundColumns(table.columns))

----------------------------------------------------------------------------
(* dashboard.py lines 189-294: header row, continuation rows, typed rows *)

\* _header_row_to_columns(raw_df, 0): a sheet is the sequence of its rows
HeaderRowToColumns(raw_df) ==
    [i \in 1..Len(raw_df[1]) |->
        LET v == raw_df[1][i]
        IN IF NotNa(v) /\ Lower(Strip(CellStr(v))) # "nan"
           THEN Strip(CellStr(v))
           ELSE "_col_" \o NatStr(i - 1)]

\* _has_date_value
HasDateValue(val) ==
    NotNa(val) /\ Lower(Strip(CellStr(val))) \notin {"", "nan", "nat", "none"}

\* lines 255-257: the row a dated row opens, its narration trimmed
OpenRow(columns, row) ==
    LET nar == Get(columns, row, "narration")
    IN Put(columns, row, "narration",
           Str(IF IsNa(nar) \/ Strip(CellStr(nar)) = "" THEN "" ELSE Strip(CellStr(nar))))

\* ContinueRow with a blank between the two narrations
ContinueRowSpaced(columns, cur, row) ==
    LET extra == Get(columns, row, "narration")
    IN IF NotNa(extra) /\ Strip(CellStr(extra)) # ""
       THEN Put(columns, cur, "narration",
                Str(CellStr(Get(columns, cur, "narration")) \o " " \o Strip(CellStr(extra))))
       ELSE cur

\* lines 260-263: a row without a date adds its narration to the open row
ContinueRow(columns, cur, row) ==
    LET extra == Get(columns, row, "narration")
    IN IF NotNa(extra) /\ Strip(CellStr(extra)) # ""
       THEN Put(columns, cur, "narration",
                Str(CellStr(Get(columns, cur, "narration")) \o Strip(CellStr(extra))))
       ELSE cur

\* lines 251-266: the rows put out for the rows left, then the open row
RECURSIVE MergeLoop(_, _, _)
MergeLoop(columns, rows, cur) ==
    IF rows = <<>> THEN cur
    ELSE IF HasDateValue(Get(columns, Head(rows), "date"))
    THEN cur \o MergeLoop(columns, Tail(rows), <<OpenRow(columns, Head(rows))>>)
    ELSE IF cur # <<>>
    THEN MergeLoop(columns, Tail(rows), <<ContinueRow(columns, cur[1], Head(rows))>>)
    ELSE MergeLoop(columns, Tail(rows), cur)

\* _merge_narration_rows
MergeNarrationRows(table) ==
    IF table.rows = <<>> \/ ~HasColumn(table.columns, "date") THEN table
    ELSE IF HasColumn(table.columns, "narration")
    THEN Frame(table.columns, MergeLoop(table.columns, table.rows, <<>>))
    ELSE LET columns == table.columns \o <<"narration">>             \* norm["narration"] = ""
             rows == [r \in 1..Len(table.rows) |-> table.rows[r] \o <<Str("")>>]
         IN Frame(columns, MergeLoop(columns, rows, <<>>))

IsDigits(s) ==
    Len(s) > 0 /\ \A i \in 0..(Len(s) - 1) : Find(DecimalDigits, CharAt(s, i), 0) >= 0

\* the number the first n characters of s, all digits, stand for
RECURSIVE DigitsValueTo(_, _)
DigitsValueTo(s, n) ==
    IF n = 0 THEN 0
    ELSE DigitsValueTo(s, n - 1) * 10 + Find(DecimalDigits, CharAt(s, n - 1), 0)

DigitsValue(s) == DigitsValueTo(s, Len(s))

\* the characters of s from position i on without the character c
RECURSIVE RemoveFrom(_, _, _)
RemoveFrom(s, i, c) ==
    IF i >= Len(s) THEN ""
    ELSE (IF CharAt(s, i) = c THEN "" ELSE CharAt(s, i)) \o RemoveFrom(s, i + 1, c)

\* s.replace(c, "") for a character c
Remove(s, c) == RemoveFrom(s, 0, c)

\* float(s) for the strings sign, digits, point, zeros (amounts are counted in
\* whole units): <<value>>, and <<>> for the ValueError of any other string
FloatOf(s) ==
    LET neg == StartsWith(s, "-")
        body == IF neg THEN Slice(s, 1, Len(s)) ELSE s
        dot == Find(body, ".", 0)
        whole == IF dot = -1 THEN body ELSE Slice(body, 0, dot)
        frac == IF dot = -1 THEN "" ELSE Slice(body, dot + 1, Len(body))
    IN IF IsDigits(whole) /\ (frac = "" \/ (IsDigits(frac) /\ DigitsValue(frac) = 0))
       THEN <<IF neg THEN 0 - DigitsValue(whole) ELSE DigitsValue(whole)>>
       ELSE <<>>

\* _parse_amount
ParseAmount(val) ==
    IF IsNa(val) THEN 0
    ELSE IF val.k = "num" THEN val.n
    ELSE IF val.k = "str" /\ val.s = "" THEN 0
    ELSE LET f == FloatOf(Remove(Strip(CellStr(val)), ","))
         IN IF f = <<>> THEN 0 ELSE f[1]

\* pd.to_datetime of a string NN/NN/YY: the month is read first, and the day
\* first when that gives no date; <<>> when the string is no date (it raises)
ToDatetimeStr(s) ==
    IF Len(s) = 8 /\ CharAt(s, 2) = "/" /\ CharAt(s, 5) = "/"
       /\ IsDigits(Slice(s, 0, 2)) /\ IsDigits(Slice(s, 3, 5)) /\ IsDigits(Slice(s, 6, 8))
    THEN LET a == DigitsValue(Slice(s, 0, 2))
             b == DigitsValue(Slice(s, 3, 5))
             y == PivotYear(DigitsValue(Slice(s, 6, 8)))
         IN IF ValidYMD(y, a, b) THEN <<MkDate(y, a, b)>>
            ELSE IF ValidYMD(y, b, a) THEN <<MkDate(y, b, a)>>
            ELSE <<>>
    ELSE <<>>

\* dashboard.py _parse_date: <<>> for None; a number is nanoseconds after
\* 1970-01-01
XlsxParseDate(val) ==
    IF IsNa(val) THEN <<>>
    ELSE IF val.k = "ts" THEN <<MkDate(val.n \div 10000, (val.n \div 100) % 100, val.n % 100)>>
    ELSE IF val.k = "num" THEN <<MkDate(1970, 1, 1)>>
    ELSE ToDatetimeStr(Strip(val.s))

\* _process_norm for one row whose date was parsed; the balance is <<>> when
\* the frame has no balance column
ProcessRow(columns, row) ==
    [date |-> XlsxParseDate(Get(columns, row, "date"))[1],
     narration |-> IF IsNa(Get(columns, row, "narration")) THEN ""
                   ELSE CellStr(Get(columns, row, "narration")),
     debit |-> IF HasColumn(columns, "debit") THEN ParseAmount(Get(columns, row, "debit")) ELSE 0,
     credit |-> IF HasColumn(columns, "credit") THEN ParseAmount(Get(columns, row, "credit")) ELSE 0,
     balance |-> IF HasColumn(columns, "balance")
                 THEN <<ParseAmount(Get(columns, row, "balance"))>> ELSE <<>>]

\* _process_norm: the rows whose date cannot be parsed are dropped
RECURSIVE ProcessRows(_, _)
ProcessRows(columns, rows) ==
    IF rows = <<>> THEN <<>>
    ELSE IF XlsxParseDate(Get(columns, Head(rows), "date")) = <<>>
    THEN ProcessRows(columns, Tail(rows))
    ELSE <<ProcessRow(columns, Head(rows))>> \o ProcessRows(columns, Tail(rows))

ProcessNorm(table) == ProcessRows(table.columns, table.rows)

\* lines 374-375: concat of the loaded frames
RECURSIVE Concat(_)
Concat(frames) == IF frames = <<>> THEN <<>> ELSE Head(frames) \o Concat(Tail(frames))

\* sort_values("date") with the default kind, which is not stable: the orders
\* of the positions in idx in which the dates do not decrease
RECURSIVE DateSorts(_, _)
DateSorts(rows, idx) ==
    IF idx = {} THEN {<<>>}
    ELSE UNION {{<<i>> \o rest : rest \in DateSorts(rows, idx \ {i})} :
                  i \in {i \in idx : \A j \in idx : DateLE(rows[i].date, rows[j].date)}}

----------------------------------------------------------------------------
(* dashboard.py lines 28-127: customer identifiers, expenses and cost heads *)

COST_HEADS ==
    <<[name |-> "Salary",
       keywords |-> <<"salary", "advanc", "salar", "bisheshar", "radheshyam", "shiv ram",
                      "sanjay", "harsh", "pyare", "somwati", "surinder", "sikander", "amit",
                      "bimal", "mayank", "sheetla", "prahlad", "CNRB0000103">>],
      [name |-> "Feed",
       keywords |-> <<"feed", "tudi", "ganna", "rakesh", "seed", "atta", "mineral", "chokar",
                      "HARDEEPSINGH">>],
      [name |-> "Rent", keywords |-> <<"rent">>],
      [name |-> "Fuel and Transportation",
       keywords |-> <<"gas", "refill", "petrol", "cylinder", "auto", "service", "transport",
                      "filling", "fuel", "bike">>],
      [name |-> "Expansion (cow, fridge)", keywords |-> <<"cow", "refrig", "crockery">>],
      [name |-> "Marketing", keywords |-> <<"print", "adver">>],
      [name |-> "Loan, CC", keywords |-> <<"loan", "credit">>],
      [name |-> "Miscellaneous",
       keywords |-> <<"ration", "fee", "medical", "ghee", "fees", "netflix", "amazon",
                      "blinkit", "swiggy", "airtel", "jio", "vikram", "ROOPBASANT">>]>>

\* lines 56-62 and 75-81: n, or n[:second] when n has a second hyphen
UpToSecond(n, first) ==
    IF first = -1 THEN <<n>>
    ELSE IF Find(n, "-", first + 1) = -1 THEN <<n>>
    ELSE <<Slice(n, 0, Find(n, "-", first + 1))>>

\* UpiCustomerId cutting at the first hyphen
UpiCustomerIdFirstHyphen(text) ==
    IF ~StartsWith(Upper(Strip(text)), "UPI") THEN <<>>
    ELSE IF Find(Strip(text), "-", 0) = -1 THEN <<Strip(text)>>
    ELSE <<Slice(Strip(text), 0, Find(Strip(text), "-", 0))>>

\* _upi_customer_id: <<>> for None
UpiCustomerId(text) ==
    IF ~StartsWith(Upper(Strip(text)), "UPI") THEN <<>>
    ELSE UpToSecond(Strip(text), Find(Strip(text), "-", 0))

\* _neft_customer_id: <<>> for None
NeftCustomerId(text) ==
    IF ~StartsWith(Upper(Strip(text)), "NEFT") THEN <<>>
    ELSE UpToSecond(Strip(text), Find(Strip(text), "-", 0))

\* lines 94-103 with the text between the first and the second hyphen
BetweenFirstAndSecond(n, first, second) ==
    IF first = -1 \/ second = -1 THEN <<n>>
    ELSE IF Find(n, "-", second + 1) = -1 THEN <<n>>
    ELSE <<Slice(n, first + 1, second)>>

\* lines 94-103: n, or n[second + 1 : third] when n has a third hyphen
BetweenSecondAndThird(n, first, second) ==
    IF first = -1 \/ second = -1 THEN <<n>>
    ELSE IF Find(n, "-", second + 1) = -1 THEN <<n>>
    ELSE <<Slice(n, second + 1, Find(n, "-", second + 1))>>

\* lines 94-98: the first hyphen and the second, -1 for none
SecondHyphen(n, first) == IF first = -1 THEN -1 ELSE Find(n, "-", first + 1)

\* _imps_customer_id: <<>> for None
ImpsCustomerId(text) ==
    IF ~StartsWith(Upper(Strip(text)), "IMPS") THEN <<>>
    ELSE BetweenSecondAndThird(Strip(text), Find(Strip(text), "-", 0),
                               SecondHyphen(Strip(text), Find(Strip(text), "-", 0)))

\* _excluded_from_expense
ExcludedFromExpense(text) == StartsWith(Upper(Strip(text)), "NEFT DR-CNRB0002374")

\* line 125: kw.lower() for the keywords of every entry
LoweredKeywords ==
    [h \in 1..Len(COST_HEADS) |->
        [k \in 1..Len(COST_HEADS[h].keywords) |-> Lower(COST_HEADS[h].keywords[k])]]

\* AnyKeyword with the keywords as they are written
AnyKeywordCased(h, text) ==
    \E k \in 1..Len(COST_HEADS[h].keywords) : Contains(text, COST_HEADS[h].keywords[k])

\* line 125: any(kw.lower() in text for kw in keywords), for entry h
AnyKeyword(h, text) ==
    \E k \in 1..Len(COST_HEADS[h].keywords) : Contains(text, LoweredKeywords[h][k])

\* lines 124-127: the loop over COST_HEADS from entry h on
RECURSIVE CostHeadFrom(_, _)
CostHeadFrom(text, h) ==
    IF h > Len(COST_HEADS) THEN "Other"
    ELSE IF AnyKeyword(h, text) THEN COST_HEADS[h].name
    ELSE CostHeadFrom(text, h + 1)

\* _assign_cost_head
AssignCostHead(text) == CostHeadFrom(Lower(text), 1)

\* _expense_mask with debit > 0 alone
ExpenseMaskDebitOnly(table) ==
    List([i \in 1..Len(table) |-> table[i].debit > 0])

\* _expense_mask: for each row of the frame, whether it is an expense
ExpenseMask(table) ==
    List([i \in 1..Len(table) |->
             table[i].debit > 0 /\ ~ExcludedFromExpense(table[i].narration)])

\* df[mask]
Masked(table, mask) ==
    LET Kept(i) == mask[i]
    IN List([k \in 1..Len(SelectSeq([i \in 1..Len(table) |-> i], Kept)) |->
                table[SelectSeq([i \in 1..Len(table) |-> i], Kept)[k]]])

\* ["debit"].sum() of the rows from position i on
RECURSIVE DebitSum(_, _)
DebitSum(table, i) ==
    IF i > Len(table) THEN 0 ELSE table[i].debit + DebitSum(table, i + 1)

\* main line 707: the names of the cost heads, then Other
CostOrder == {COST_HEADS[h].name : h \in 1..Len(COST_HEADS)} \cup {"Other"}

\* main line 705: the cost_head column of the rows
CostHeadColumn(expense_for_costs) ==
    List([i \in 1..Len(expense_for_costs) |-> AssignCostHead(expense_for_costs[i].narration)])

\* main lines 706-708: the rows grouped by cost_head and summed, 0 for a cost
\* head without rows
GroupedSum(expense_for_costs, heads) ==
    [name \in CostOrder |->
        DebitSum(Masked(expense_for_costs, List([i \in 1..Len(heads) |-> heads[i] = name])), 1)]

\* main lines 704-708
CostTotals(expense_for_costs) ==
    GroupedSum(expense_for_costs, CostHeadColumn(expense_for_costs))

\* analyzer.py lines 296-309: categories, in the order of the dict
categories ==
    <<[name |-> "Salary & Wages", keywords |-> <<"salary", "wage", "payroll", "employee">>],
      [name |-> "Rent", keywords |-> <<"rent", "lease">>],
      [name |-> "Utilities",
       keywords |-> <<"electric", "water", "gas", "internet", "phone", "utility">>],
      [name |-> "Supplies", keywords |-> <<"supply", "supplies", "stationery", "office">>],
      [name |-> "Marketing", keywords |-> <<"marketing", "advertising", "promotion", "ad">>],
      [name |-> "Transportation",
       keywords |-> <<"fuel", "petrol", "diesel", "transport", "travel", "uber", "ola">>],
      [name |-> "Professional Fees",
       keywords |-> <<"legal", "consultant", "professional", "accounting", "audit">>],
      [name |-> "Bank Charges", keywords |-> <<"charge", "fee", "bank">>],
      [name |-> "Insurance", keywords |-> <<"insurance", "premium">>],
      [name |-> "Maintenance", keywords |-> <<"maintenance", "repair", "service">>],
      [name |-> "Taxes", keywords |-> <<"tax", "gst", "tds">>],
      [name |-> "Purchases", keywords |-> <<"purchase", "buy", "vendor", "supplier">>]>>

\* analyzer.py line 318: any(keyword in desc for keyword in keywords), for entry c
AnyCategoryKeyword(c, desc) ==
    \E k \in 1..Len(categories[c].keywords) : Contains(desc, categories[c].keywords[k])

\* analyzer.py lines 319-320 and 330-331: the amount and the count of the
\* entry of the defaultdict go up by the withdrawal and by one
Counts(acc, name, debit) ==
    IF name \in DOMAIN acc
    THEN [acc EXCEPT ![name] = [amount |-> @.amount + debit, count |-> @.count + 1]]
    ELSE acc @@ (name :> [amount |-> debit, count |-> 1])

\* the loop of lines 317-327 with no break: every category with a keyword in
\* desc, from entry c on
RECURSIVE CategoriesEveryMatch(_, _, _, _, _)
CategoriesEveryMatch(acc, desc, debit, c, categorized) ==
    IF c > Len(categories)
    THEN IF categorized THEN acc ELSE Counts(acc, "Other", debit)
    ELSE IF AnyCategoryKeyword(c, desc)
    THEN CategoriesEveryMatch(Counts(acc, categories[c].name, debit), desc, debit, c + 1, TRUE)
    ELSE CategoriesEveryMatch(acc, desc, debit, c + 1, categorized)

\* analyzer.py lines 317-335: the loop over categories from entry c on for one
\* row, left at the first category with a keyword in desc; Other when the
\* loop ends with categorized False
RECURSIVE CategoriesFrom(_, _, _, _, _)
CategoriesFrom(acc, desc, debit, c, categorized) ==
    IF c > Len(categories)
    THEN IF categorized THEN acc ELSE Counts(acc, "Other", debit)
    ELSE IF AnyCategoryKeyword(c, desc) THEN Counts(acc, categories[c].name, debit)
    ELSE CategoriesFrom(acc, desc, debit, c + 1, categorized)

\* analyzer.py lines 314-335: the rows of expense_transactions from position i on
RECURSIVE CategorizeFrom(_, _, _)
CategorizeFrom(expense_transactions, i, acc) ==
    IF i > Len(expense_transactions) THEN acc
    ELSE CategorizeFrom(expense_transactions, i + 1,
                        CategoriesFrom(acc, Lower(expense_transactions[i].narration),
                                       expense_transactions[i].debit, 1, FALSE))

\* analyzer.py line 290: self.df['debit'] > 0
DebitAboveZero(table) == List([i \in 1..Len(table) |-> table[i].debit > 0])

\* analyzer.py categorize_expenses; the description of a row is its narration
\* field, and the empty dict is the function of no name
CategorizeExpensesOf(table) == CategorizeFrom(Masked(table, DebitAboveZero(table)), 1, <<>>)

----------------------------------------------------------------------------
(* Input lines *)

Amts(ns) == [i \in 1..Len(ns) |-> A(ns[i])]

\* amounts of the date-led lines: none, one, two, three and four tokens
StartAmounts ==
    {<<>>, <<2>>,
     <<1, 1>>, <<1, 2>>, <<2, 1>>,
     <<0, 0, 1>>, <<0, 1, 1>>, <<1, 0, 2>>, <<1, 2, 2>>,
     <<2, 0, 1, 1>>}

\* amounts of the later-dated lines
LaterAmounts == {<<1, 1>>, <<2, 2>>}

\* amounts of the lines without a date
ContinuationAmounts == {<<>>, <<1>>, <<1, 2>>, <<0, 1, 1>>}

FirstDateTok == D(1, 4, 23)
LaterDateTok == D(2, 4, 23)
BadDateTok == D(99, 99, 99)

HeaderLine == <<W("Date"), W("Narration"), W("Withdrawal")>>

Lines ==
    {<<FirstDateTok, W("A")>> \o Amts(ns) : ns \in StartAmounts}
    \cup {<<LaterDateTok, W("A")>> \o Amts(ns) : ns \in LaterAmounts}
    \cup {<<W("B")>> \o Amts(ns) : ns \in ContinuationAmounts}
    \cup {<<BadDateTok, W("A"), A(1), A(2)>>}
    \cup {HeaderLine}

\* the input so far with one more line: of the text being read, or of a new text
Feed(ts, open, line) ==
    IF open THEN Front(ts) \o <<Last(ts) \o <<line>>>> ELSE ts \o <<<<line>>>>

RECURSIVE NLines(_)
NLines(ts) == IF ts = <<>> THEN 0 ELSE Len(Head(ts)) + NLines(Tail(ts))

----------------------------------------------------------------------------
(* Initial values of the variables a specification does not use *)

DedupeInit == stmt_rows = <<>> /\ out = <<>>

FileInit == uploaded_files = <<>> /\ file_index = 0 /\ all_dfs = <<>>

XlsxInit ==
    /\ all_sheets = <<>>
    /\ sheet_index = 0
    /\ header_names = <<>>
    /\ loaded = <<>>
    /\ contributed = <<>>
    /\ data_df = <<>>
    /\ norm = <<>>
    /\ merged = <<>>
    /\ combined = <<>>
    /\ found_col = <<>>
    /\ FileInit

PageInit ==
    /\ narration = ""
    /\ upi_customer_id = <<>>
    /\ neft_customer_id = <<>>
    /\ imps_customer_id = <<>>
    /\ cost_head = <<>>
    /\ page_df = <<>>
    /\ total_expense = <<>>
    /\ cost_totals = <<>>
    /\ cost_heads = <<>>

OtherInit == DedupeInit /\ XlsxInit /\ PageInit

TextInit ==
    /\ current_transaction = <<>>
    /\ transactions = <<>>
    /\ all_transactions = <<>>
    /\ df = <<>>
    /\ df_index = <<>>
    /\ current = <<>>
    /\ sp_transactions = <<>>
    /\ all_txns = <<>>
    /\ frame = <<>>
    /\ frame_index = <<>>
    /\ texts = <<>>
    /\ reading = FALSE
    /\ date_str = FirstDateTok
    /\ resolver = ""
    /\ resolved = <<>>

----------------------------------------------------------------------------
(* Specification of analyzer.py *)

Init ==
    /\ current_transaction = <<>>
    /\ transactions = <<>>
    /\ all_transactions = <<>>
    /\ df = <<>>
    /\ df_index = <<>>
    /\ pc = "parse"
    /\ texts = <<>>
    /\ reading = FALSE
    /\ date_str = FirstDateTok
    /\ resolver = ""
    /\ resolved = <<>>
    /\ current = <<>>
    /\ sp_transactions = <<>>
    /\ all_txns = <<>>
    /\ frame = <<>>
    /\ frame_index = <<>>
    /\ OtherInit

\* one iteration of the loop over the lines of the text being parsed
ParseLine(line) ==
    /\ pc = "parse"
    /\ NLines(texts) < MaxLines
    /\ LET r == AnalyzerStep(transactions, current_transaction, line)
       IN /\ transactions' = r[1]
          /\ current_transaction' = r[2]
    /\ texts' = Feed(texts, reading, line)
    /\ reading' = TRUE
    /\ UNCHANGED <<all_transactions, df, df_index, pc, parser_vars, date_vars, other_vars>>

\* the text ends: parse_transactions returns and load_data extends all_transactions
EndOfText ==
    /\ pc = "parse"
    /\ reading
    /\ all_transactions' = all_transactions \o ParseResult(transactions, current_transaction)
    /\ transactions' = <<>>
    /\ current_transaction' = <<>>
    /\ reading' = FALSE
    /\ UNCHANGED <<df, df_index, pc, texts, parser_vars, date_vars, other_vars>>

\* load_data after the last text: no transactions at all, it returns False
LoadNothing ==
    /\ pc = "parse"
    /\ transactions = <<>> /\ current_transaction = <<>> /\ ~reading
    /\ all_transactions = <<>>
    /\ pc' = "empty"
    /\ UNCHANGED <<analyzer_vars, parser_vars, input_vars, date_vars, other_vars>>

\* load_data after the last text: the frame is built, sorted and re-indexed
LoadFrame ==
    /\ pc = "parse"
    /\ transactions = <<>> /\ current_transaction = <<>> /\ ~reading
    /\ all_transactions # <<>>
    /\ \E p \in SortOrders(all_transactions) :
          /\ df' = Reorder(all_transactions, p)
          /\ df_index' = p
    /\ pc' = "loaded"
    /\ UNCHANGED <<current_transaction, transactions, all_transactions,
                   parser_vars, input_vars, date_vars, other_vars>>

Next ==
    \/ \E line \in Lines : ParseLine(line)
    \/ EndOfText
    \/ LoadNothing
    \/ LoadFrame

Spec == Init /\ [][Next]_vars

----------------------------------------------------------------------------
(* Specification of statement_parser.py, text path *)

\* one iteration of the loop over the lines of the text being parsed
ParserLine(line) ==
    /\ pc = "parse"
    /\ NLines(texts) < MaxLines
    /\ LET r == ParserStep(sp_transactions, current, line)
       IN /\ sp_transactions' = r[1]
          /\ current' = r[2]
    /\ texts' = Feed(texts, reading, line)
    /\ reading' = TRUE
    /\ UNCHANGED <<all_txns, frame, frame_index, pc, analyzer_vars, date_vars, other_vars>>

\* lines 249-251: what _parse_transactions_from_text returns at the end of the text
ParserResult(trs, cur) == IF cur # <<>> /\ cur[1].Balance # <<>> THEN trs \o cur ELSE trs

\* the text ends: load_statement dedupes its rows and parse_pdfs extends all_txns
ParserEndOfText ==
    /\ pc = "parse"
    /\ reading
    /\ all_txns' = all_txns \o DedupeAndClean(ParserResult(sp_transactions, current))
    /\ sp_transactions' = <<>>
    /\ current' = <<>>
    /\ reading' = FALSE
    /\ UNCHANGED <<frame, frame_index, pc, texts, analyzer_vars, date_vars, other_vars>>

\* to_dataframe on no rows: the empty frame
ToDataframeEmpty ==
    /\ pc = "parse"
    /\ sp_transactions = <<>> /\ current = <<>> /\ ~reading
    /\ all_txns = <<>>
    /\ pc' = "empty"
    /\ UNCHANGED <<analyzer_vars, parser_vars, input_vars, date_vars, other_vars>>

\* to_dataframe: the rows are typed, sorted by date and re-indexed
ToDataframe ==
    /\ pc = "parse"
    /\ sp_transactions = <<>> /\ current = <<>> /\ ~reading
    /\ all_txns # <<>>
    /\ LET typed == [i \in 1..Len(all_txns) |-> TypedRow(all_txns[i])]
       IN \E p \in FrameOrders(typed) :
             /\ frame' = Reorder(typed, p)
             /\ frame_index' = p
    /\ pc' = "loaded"
    /\ UNCHANGED <<current, sp_transactions, all_txns, analyzer_vars, input_vars, date_vars, other_vars>>

NextSP ==
    \/ \E line \in Lines : ParserLine(line)
    \/ ParserEndOfText
    \/ ToDataframeEmpty
    \/ ToDataframe

SpecSP == Init /\ [][NextSP]_vars

----------------------------------------------------------------------------
(* Specification of the two text parsers reading the same texts *)

\* the lines of headings and boilerplate of a statement
HeadingLines ==
    {HeaderLine,
     <<W("Date"), W("Narration"), W("Closing")>>,
     <<W("Statement of account")>>,
     <<W("Account Branch")>>,
     <<W("Page No"), W("2")>>,
     <<W("x"), W("Page No")>>}

\* lines with and without blanks that follow one another, amounts and text
SpacedLines ==
    {<<FirstDateTok, W("A"), A(1), A(1)>>,
     <<FirstDateTok, W("A"), Gap, W("X"), A(1), A(1)>>,
     <<FirstDateTok, A(1), A(1)>>,
     <<W("B")>>,
     <<Gap, W("B"), Gap, W("C"), Gap>>,
     <<A(1), A(2)>>}

\* parse_transactions and _parse_transactions_from_text, one iteration each
\* on the same line; both strip the line first (analyzer.py 61,
\* statement_parser.py 178)
ReadLine(line) ==
    /\ pc = "parse"
    /\ NLines(texts) < MaxLines
    /\ LET r == AnalyzerStep(transactions, current_transaction, StripBlanks(line))
       IN /\ transactions' = r[1]
          /\ current_transaction' = r[2]
    /\ LET r == ParserStep(sp_transactions, current, StripBlanks(line))
       IN /\ sp_transactions' = r[1]
          /\ current' = r[2]
    /\ texts' = Feed(texts, reading, line)
    /\ reading' = TRUE
    /\ UNCHANGED <<all_transactions, df, df_index, all_txns, frame, frame_index, pc,
                   date_vars, other_vars>>

\* the text ends for both: load_data and parse_pdfs extend their lists
EndOfBoth ==
    /\ pc = "parse"
    /\ reading
    /\ all_transactions' = all_transactions \o ParseResult(transactions, current_transaction)
    /\ all_txns' = all_txns \o DedupeAndClean(ParserResult(sp_transactions, current))
    /\ transactions' = <<>>
    /\ current_transaction' = <<>>
    /\ sp_transactions' = <<>>
    /\ current' = <<>>
    /\ reading' = FALSE
    /\ UNCHANGED <<df, df_index, frame, frame_index, pc, texts, date_vars, other_vars>>

NextText ==
    \/ \E line \in HeadingLines \cup SpacedLines : ReadLine(line)
    \/ EndOfBoth

SpecText == Init /\ [][NextText]_vars

----------------------------------------------------------------------------
(* Specification of the date conversions *)

MaxYY == 99

\* days and months around the ends of their ranges
Days == {0, 1, 28, 29, 30, 31, 32}
Months == {0, 1, 2, 4, 12, 13}

DateStrings == {D(dd, mm, yy) : dd \in Days, mm \in Months, yy \in 0..MaxYY}

InitDate ==
    /\ current_transaction = <<>>
    /\ transactions = <<>>
    /\ all_transactions = <<>>
    /\ df = <<>>
    /\ df_index = <<>>
    /\ pc = "parse"
    /\ texts = <<>>
    /\ reading = FALSE
    /\ current = <<>>
    /\ sp_transactions = <<>>
    /\ all_txns = <<>>
    /\ frame = <<>>
    /\ frame_index = <<>>
    /\ date_str \in DateStrings
    /\ resolver = ""
    /\ resolved = <<>>
    /\ OtherInit

\* analyzer.py lines 84-88; an exception leaves no date
ResolveInAnalyzer ==
    /\ resolver = ""
    /\ resolver' = "parse_transactions"
    /\ resolved' = IF AnalyzerDateOk(date_str) THEN <<AnalyzerDate(date_str)>> ELSE <<>>
    /\ UNCHANGED <<analyzer_vars, parser_vars, pc, input_vars, date_str, other_vars>>

\* statement_parser.py _parse_date
ResolveInParseDate ==
    /\ resolver = ""
    /\ resolver' = "_parse_date"
    /\ resolved' = ParseDate(date_str)
    /\ UNCHANGED <<analyzer_vars, parser_vars, pc, input_vars, date_str, other_vars>>

\* statement_parser.py to_dataframe, line 281
ResolveInToDataframe ==
    /\ resolver = ""
    /\ resolver' = "to_dataframe"
    /\ resolved' = ToDatetime(date_str)
    /\ UNCHANGED <<analyzer_vars, parser_vars, pc, input_vars, date_str, other_vars>>

NextDate ==
    \/ ResolveInAnalyzer
    \/ ResolveInParseDate
    \/ ResolveInToDataframe

SpecDate == InitDate /\ [][NextDate]_vars

----------------------------------------------------------------------------
(* Specification of statement_parser.py _dedupe_and_clean *)

MaxRows == 3

Long79 == "0123456789012345678901234567890123456789012345678901234567890123456789012345678"

Row(date, text, withdrawn, balance) ==
    [Date |-> date, Narration |-> text, Ref |-> <<>>, ValueDt |-> date,
     Withdrawn |-> withdrawn, Deposit |-> <<>>, Balance |-> balance]

\* rows that differ in one field of the key or in none, with narrations of 80
\* characters and more that differ before, at and after the 80th character
DedupeRows ==
    {Row(FirstDateTok, <<W("A")>>, <<>>, <<1>>),
     Row(FirstDateTok, <<W("A")>>, <<1>>, <<1>>),
     Row(LaterDateTok, <<W("A")>>, <<>>, <<1>>),
     Row(FirstDateTok, <<W("A")>>, <<>>, <<2>>),
     Row(FirstDateTok, <<W(Long79 \o "X")>>, <<>>, <<1>>),
     Row(FirstDateTok, <<W(Long79 \o "XY")>>, <<>>, <<1>>),
     Row(FirstDateTok, <<W(Long79 \o "X"), W("Z")>>, <<>>, <<1>>),
     Row(FirstDateTok, <<W(Long79 \o "Y")>>, <<>>, <<1>>),
     Row(FirstDateTok, <<W(Long79), W("X")>>, <<>>, <<1>>)}

RowLists == UNION {[1..n -> DedupeRows] : n \in 0..MaxRows}

InitDedupe ==
    /\ TextInit
    /\ pc = "rows"
    /\ stmt_rows \in RowLists
    /\ out = <<>>
    /\ XlsxInit
    /\ PageInit

\* load_statement line 260: the rows of one statement are deduplicated
Dedupe ==
    /\ pc = "rows"
    /\ out' = DedupeAndClean(stmt_rows)
    /\ pc' = "deduped"
    /\ UNCHANGED <<text_vars, stmt_rows, xlsx_vars, page_vars>>

\* _dedupe_and_clean applied to the list it returned
DedupeAgain ==
    /\ pc = "deduped"
    /\ out' = DedupeAndClean(out)
    /\ pc' = "again"
    /\ UNCHANGED <<text_vars, stmt_rows, xlsx_vars, page_vars>>

NextDedupe ==
    \/ Dedupe
    \/ DedupeAgain

SpecDedupe == InitDedupe /\ [][NextDedupe]_vars

----------------------------------------------------------------------------
(* Specification of dashboard.py load_xlsx_all_sheets and build_dataframe_from_xlsx *)

MaxSheets == 3

HeaderRow ==
    <<Str("Date"), Str("Narration"), Str("Withdrawal Amt."), Str("Deposit Amt."),
      Str("Closing Balance")>>

\* a header with a column Amt before the amount columns
AmtHeaderRow ==
    <<Str("Date"), Str("Amt"), Str("Withdrawal Amt."), Str("Deposit Amt."),
      Str("Closing Balance")>>

\* a header without a deposit column
NoDepositHeaderRow ==
    <<Str("Date"), Str("Narration"), Str("Withdrawal Amt."), Str("Type"),
      Str("Closing Balance")>>

\* a header with other names and an empty cell
OtherHeaderRow == <<Str(" DATE "), NaN, Str("Debit"), Str("Credit"), Str("Balance")>>

DatedRow == <<Str("01/04/23"), Str("Payment to"), Str("1.00"), NaN, Str("5.00")>>
LaterDatedRow == <<Ts(2023, 4, 2), Str(" B "), NaN, Num(2), Num(7)>>
ContinuationRow == <<NaN, Str("XYZ corp"), NaN, NaN, NaN>>
TotalRow == <<Str("Total"), NaN, Str("1.00"), Str("2.00"), NaN>>
FourCellRow == <<Str("03/04/23"), Str("C"), Str("1.00"), Str("4.00")>>

\* sheets: empty, with a header row, without one, and of another width
Sheets ==
    {<<>>,
     <<HeaderRow, TotalRow>>,
     <<HeaderRow, DatedRow, ContinuationRow>>,
     <<AmtHeaderRow, DatedRow>>,
     <<NoDepositHeaderRow, DatedRow>>,
     <<OtherHeaderRow, LaterDatedRow>>,
     <<LaterDatedRow, ContinuationRow>>,
     <<FourCellRow>>}

Workbooks == UNION {[1..n -> Sheets] : n \in 1..MaxSheets}

InitXlsx ==
    /\ TextInit
    /\ DedupeInit
    /\ PageInit
    /\ pc = "sheets"
    /\ all_sheets \in Workbooks
    /\ sheet_index = 0
    /\ header_names = <<>>
    /\ loaded = <<>>
    /\ contributed = <<>>
    /\ data_df = <<>>
    /\ norm = <<>>
    /\ merged = <<>>
    /\ combined = <<>>
    /\ found_col = <<>>
    /\ FileInit

\* lines 314-315: an empty sheet is passed over
SkipEmptySheet ==
    /\ pc = "sheets"
    /\ sheet_index < Len(all_sheets)
    /\ all_sheets[sheet_index + 1] = <<>>
    /\ sheet_index' = sheet_index + 1
    /\ contributed' = Append(contributed, <<>>)
    /\ data_df' = <<>> /\ norm' = <<>> /\ merged' = <<>> /\ found_col' = <<>>
    /\ UNCHANGED <<text_vars, dedupe_vars, page_vars, file_vars, pc, all_sheets, header_names, loaded, combined>>

\* lines 329-331 and 344-346: the processed frame is appended when it has rows
LoadProcessed(names, narrated, processed) ==
    /\ merged' = <<narrated>>
    /\ header_names' = <<names>>
    /\ contributed' = Append(contributed, processed)
    /\ loaded' = IF processed # <<>> THEN Append(loaded, processed) ELSE loaded

\* lines 328 and 343: the merged frame is processed
LoadMerged(names, narrated) == LoadProcessed(names, narrated, ProcessNorm(narrated))

\* LoadNormalized without the merge of the continuation rows
LoadNormalizedUnmerged(names, normalized) ==
    /\ norm' = normalized
    /\ IF normalized = <<>> \/ (sheet_index = 0 /\ Len(normalized[1].columns) < 3)
       THEN /\ merged' = <<>>
            /\ contributed' = Append(contributed, <<>>)
            /\ UNCHANGED <<header_names, loaded>>
       ELSE LoadMerged(names, normalized[1])

\* lines 326-328 and 341-343: the normalized frame is merged and processed
LoadNormalized(names, normalized) ==
    /\ norm' = normalized
    /\ IF normalized = <<>> \/ (sheet_index = 0 /\ Len(normalized[1].columns) < 3)
       THEN /\ merged' = <<>>
            /\ contributed' = Append(contributed, <<>>)
            /\ UNCHANGED <<header_names, loaded>>
       ELSE LoadMerged(names, MergeNarrationRows(normalized[1]))

\* lines 323-331 and 338-346: the frame is normalized with the columns found,
\* merged and processed
LoadFound(table, names, found) ==
    /\ found_col' = found
    /\ LoadNormalized(names, NormalizeFound(table, found))

\* lines 322-331 and 338-346: the columns are found, then the frame is loaded
LoadSheet(table, names) ==
    /\ data_df' = <<table>>
    /\ LoadFound(table, names, FoundColumns(table.columns))

\* lines 317-331: the first sheet, whose first row is the header
FirstSheet ==
    /\ pc = "sheets"
    /\ sheet_index < Len(all_sheets)
    /\ sheet_index = 0
    /\ all_sheets[1] # <<>>
    /\ LET raw_df == all_sheets[1]
           cols == HeaderRowToColumns(raw_df)
       IN LoadSheet(Frame(cols, Tail(raw_df)), cols)
    /\ sheet_index' = sheet_index + 1
    /\ UNCHANGED <<text_vars, dedupe_vars, page_vars, file_vars, pc, all_sheets, combined>>

\* lines 332-346: a later sheet, with the column names of the first sheet
OtherSheet ==
    /\ pc = "sheets"
    /\ sheet_index < Len(all_sheets)
    /\ sheet_index > 0
    /\ all_sheets[sheet_index + 1] # <<>>
    /\ LET raw_df == all_sheets[sheet_index + 1]
       IN IF header_names = <<>> \/ Len(raw_df[1]) # Len(header_names[1])
          THEN /\ contributed' = Append(contributed, <<>>)
               /\ data_df' = <<>> /\ norm' = <<>> /\ merged' = <<>> /\ found_col' = <<>>
               /\ UNCHANGED <<header_names, loaded>>
          ELSE LoadSheet(Frame(header_names[1], raw_df), header_names[1])
    /\ sheet_index' = sheet_index + 1
    /\ UNCHANGED <<text_vars, dedupe_vars, page_vars, file_vars, pc, all_sheets, combined>>

\* build_dataframe_from_xlsx lines 371-372: no frame was loaded
BuildNothing ==
    /\ pc = "sheets"
    /\ sheet_index = Len(all_sheets)
    /\ loaded = <<>>
    /\ pc' = "empty"
    /\ UNCHANGED <<text_vars, dedupe_vars, page_vars, xlsx_vars>>

\* build_dataframe_from_xlsx lines 374-377: the frames are joined and sorted
BuildDataframe ==
    /\ pc = "sheets"
    /\ sheet_index = Len(all_sheets)
    /\ loaded # <<>>
    /\ LET rows == Concat(loaded)
       IN \E p \in DateSorts(rows, 1..Len(rows)) : combined' = Reorder(rows, p)
    /\ pc' = "loaded"
    /\ UNCHANGED <<text_vars, dedupe_vars, page_vars, file_vars, all_sheets, sheet_index, header_names,
                   loaded, contributed, data_df, norm, merged, found_col>>

NextXlsx ==
    \/ SkipEmptySheet
    \/ FirstSheet
    \/ OtherSheet
    \/ BuildNothing
    \/ BuildDataframe

SpecXlsx == InitXlsx /\ [][NextXlsx]_vars

----------------------------------------------------------------------------
(* Specification of a run over several sources: texts, or workbooks *)

MaxFiles == 2

\* workbooks: one sheet with a header; that sheet and one without a header;
\* an empty sheet and one without a header; a header without a deposit column
\* and a sheet without a header
Books ==
    {<<<<HeaderRow, DatedRow, ContinuationRow>>>>,
     <<<<HeaderRow, TotalRow>>, <<LaterDatedRow, ContinuationRow>>>>,
     <<<<>>, <<LaterDatedRow, ContinuationRow>>>>,
     <<<<NoDepositHeaderRow, DatedRow>>, <<LaterDatedRow>>>>}

InitFiles ==
    /\ TextInit
    /\ DedupeInit
    /\ PageInit
    /\ pc = "file"
    /\ uploaded_files \in UNION {[1..n -> Books] : n \in 1..MaxFiles}
    /\ file_index = 0
    /\ all_dfs = <<>>
    /\ all_sheets = <<>>
    /\ sheet_index = 0
    /\ header_names = <<>>
    /\ loaded = <<>>
    /\ contributed = <<>>
    /\ data_df = <<>>
    /\ norm = <<>>
    /\ merged = <<>>
    /\ combined = <<>>
    /\ found_col = <<>>

\* OpenFile with the header names of the workbook before kept
OpenFileKeepsNames ==
    /\ pc = "file"
    /\ file_index < Len(uploaded_files)
    /\ all_sheets' = uploaded_files[file_index + 1]
    /\ file_index' = file_index + 1
    /\ sheet_index' = 0
    /\ loaded' = <<>>
    /\ contributed' = <<>>
    /\ data_df' = <<>> /\ norm' = <<>> /\ merged' = <<>> /\ found_col' = <<>>
    /\ pc' = "sheets"
    /\ UNCHANGED <<text_vars, dedupe_vars, page_vars, uploaded_files, all_dfs, combined,
                   header_names>>

\* build_dataframe_from_xlsx lines 360-363 and load_xlsx_all_sheets lines
\* 302-311: the next workbook is read; loaded and header_names are new
OpenFile ==
    /\ pc = "file"
    /\ file_index < Len(uploaded_files)
    /\ all_sheets' = uploaded_files[file_index + 1]
    /\ file_index' = file_index + 1
    /\ sheet_index' = 0
    /\ loaded' = <<>>
    /\ header_names' = <<>>
    /\ contributed' = <<>>
    /\ data_df' = <<>> /\ norm' = <<>> /\ merged' = <<>> /\ found_col' = <<>>
    /\ pc' = "sheets"
    /\ UNCHANGED <<text_vars, dedupe_vars, page_vars, uploaded_files, all_dfs, combined>>

\* load_xlsx_all_sheets line 348 and build_dataframe_from_xlsx line 364:
\* all_dfs.extend(sheets_list)
FileLoaded ==
    /\ pc = "sheets"
    /\ file_index >= 1
    /\ sheet_index = Len(all_sheets)
    /\ all_dfs' = all_dfs \o loaded
    /\ pc' = "file"
    /\ UNCHANGED <<text_vars, dedupe_vars, page_vars, uploaded_files, file_index, all_sheets,
                   sheet_index, header_names, loaded, contributed, data_df, norm, merged,
                   combined, found_col>>

\* build_dataframe_from_xlsx lines 371-377 after the last workbook
BuildFromFiles ==
    /\ pc = "file"
    /\ file_index = Len(uploaded_files)
    /\ IF all_dfs = <<>>
       THEN pc' = "empty" /\ UNCHANGED combined
       ELSE /\ LET rows == Concat(all_dfs)
               IN \E p \in DateSorts(rows, 1..Len(rows)) : combined' = Reorder(rows, p)
            /\ pc' = "loaded"
    /\ UNCHANGED <<text_vars, dedupe_vars, page_vars, file_vars, all_sheets, sheet_index,
                   header_names, loaded, contributed, data_df, norm, merged, found_col>>

NextSources ==
    \/ \E line \in HeadingLines \cup SpacedLines : ReadLine(line)
    \/ EndOfBoth
    \/ OpenFile
    \/ SkipEmptySheet
    \/ FirstSheet
    \/ OtherSheet
    \/ FileLoaded
    \/ BuildFromFiles

SpecSources == (Init \/ InitFiles) /\ [][NextSources]_vars

----------------------------------------------------------------------------
(* Specification of dashboard.py _normalize_columns on the header of a sheet *)

MaxColumns == 3

\* names of columns: equal to an alias, equal after strip and lower, holding
\* an alias, held by an alias, and none of these
ColumnNames ==
    {"Date", " DATE ", "Value Date", "Narration", "Debit", "Amt", "Credit", "Ref"}

Headers == UNION {[1..n -> ColumnNames] : n \in 0..MaxColumns}

InitColumns ==
    /\ TextInit
    /\ DedupeInit
    /\ PageInit
    /\ pc = "header"
    /\ data_df \in {<<Frame(columns, <<>>)>> : columns \in Headers}
    /\ norm = <<>>
    /\ found_col = <<>>
    /\ FileInit
    /\ merged = <<>>
    /\ all_sheets = <<>>
    /\ sheet_index = 0
    /\ header_names = <<>>
    /\ loaded = <<>>
    /\ contributed = <<>>
    /\ combined = <<>>

\* _normalize_columns with the columns it found
NormalizeWith(found) ==
    /\ found_col' = found
    /\ norm' = NormalizeFound(data_df[1], found)

\* load_xlsx_all_sheets lines 323 and 338: norm = _normalize_columns(data_df)
NormalizeSheet ==
    /\ pc = "header"
    /\ NormalizeWith(FoundColumns(data_df[1].columns))
    /\ pc' = "normalized"
    /\ UNCHANGED <<text_vars, dedupe_vars, page_vars, file_vars, all_sheets, sheet_index, header_names,
                   loaded, contributed, data_df, merged, combined>>

NextColumns == NormalizeSheet

SpecColumns == InitColumns /\ [][NextColumns]_vars

----------------------------------------------------------------------------
(* Specification of dashboard.py _merge_narration_rows on normalized frames *)

\* rows of the columns date, narration, debit, credit: dated rows and rows
\* whose date cell is NaN, empty, blank or a null-like word
MergeRows ==
    {<<Str("01/04/23"), Str("Payment to"), Str("1.00"), NaN>>,
     <<NaN, Str("XYZ corp"), Str("9.00"), NaN>>,
     <<Ts(2023, 4, 2), Str(" B "), NaN, Num(2)>>,
     <<Str(""), NaN, NaN, NaN>>,
     <<Str(" NaT "), Str("  "), NaN, NaN>>,
     <<Str("None"), Str(" ref 1 "), NaN, NaN>>,
     <<Str("02/04/23"), NaN, NaN, Str("3.00")>>,
     <<Str("nan"), Num(5), NaN, NaN>>}

MergeRowLists == UNION {[1..n -> MergeRows] : n \in 0..MaxRows}

\* the frame of the rows, and the frame without the narration column
NormalizedFrames ==
    {Frame(<<"date", "narration", "debit", "credit">>, rs) : rs \in MergeRowLists}
    \cup {Frame(<<"date", "debit", "credit">>,
                 [i \in 1..Len(rs) |-> <<rs[i][1], rs[i][3], rs[i][4]>>]) :
              rs \in MergeRowLists}

InitMerge ==
    /\ TextInit
    /\ DedupeInit
    /\ PageInit
    /\ pc = "norm"
    /\ norm \in {<<table>> : table \in NormalizedFrames}
    /\ merged = <<>>
    /\ all_sheets = <<>>
    /\ sheet_index = 0
    /\ header_names = <<>>
    /\ loaded = <<>>
    /\ contributed = <<>>
    /\ data_df = <<>>
    /\ combined = <<>>
    /\ found_col = <<>>
    /\ FileInit

\* load_xlsx_all_sheets lines 327 and 342: norm = _merge_narration_rows(norm)
MergeSheet ==
    /\ pc = "norm"
    /\ merged' = <<MergeNarrationRows(norm[1])>>
    /\ pc' = "merged"
    /\ UNCHANGED <<text_vars, dedupe_vars, page_vars, file_vars, all_sheets, sheet_index, header_names, loaded,
                   contributed, data_df, norm, combined, found_col>>

NextMerge == MergeSheet

SpecMerge == InitMerge /\ [][NextMerge]_vars

----------------------------------------------------------------------------
(* Specification of dashboard.py customer identifiers and cost heads of one narration *)

MaxHyphens == 3

\* how narrations begin, and the texts between their hyphens
Prefixes == {"UPI", "upi", "NEFT CR", "IMPS", "POS"}

Segments == {"JOHN DOE", "Shop RENT", "salary", "CNRB0000103", ""}

\* the texts of k hyphens, each followed by a segment
RECURSIVE Tails(_)
Tails(k) ==
    IF k = 0 THEN {""}
    ELSE {"-" \o seg \o rest : seg \in Segments, rest \in Tails(k - 1)}

Narrations ==
    {prefix \o rest : prefix \in Prefixes, rest \in UNION {Tails(k) : k \in 0..MaxHyphens}}
    \cup {"UPI-JOHN DOE-johndoe@bank-REF123-milk payment",
           "IMPS-506016885554-REKHA MITTAL-SBIN-XXXXXXX4686-MILK PAYMENT"}

InitNarration ==
    /\ TextInit
    /\ DedupeInit
    /\ XlsxInit
    /\ pc = "narration"
    /\ narration \in Narrations
    /\ upi_customer_id = <<>>
    /\ neft_customer_id = <<>>
    /\ imps_customer_id = <<>>
    /\ cost_head = <<>>
    /\ page_df = <<>>
    /\ total_expense = <<>>
    /\ cost_totals = <<>>
    /\ cost_heads = <<>>

\* main lines 566-568: the three identifier columns of the row
CustomerAnalysis ==
    /\ pc = "narration"
    /\ upi_customer_id' = UpiCustomerId(narration)
    /\ neft_customer_id' = NeftCustomerId(narration)
    /\ imps_customer_id' = ImpsCustomerId(narration)
    /\ pc' = "customer"
    /\ UNCHANGED <<text_vars, dedupe_vars, xlsx_vars, narration, cost_head, page_df,
                   total_expense, cost_totals, cost_heads>>

\* main line 705: the cost_head column of the row
Costs ==
    /\ pc = "narration"
    /\ cost_head' = <<AssignCostHead(narration)>>
    /\ pc' = "costs"
    /\ UNCHANGED <<text_vars, dedupe_vars, xlsx_vars, narration, upi_customer_id,
                   neft_customer_id, imps_customer_id, page_df, total_expense, cost_totals,
                   cost_heads>>

NextNarration ==
    \/ CustomerAnalysis
    \/ Costs

SpecNarration == InitNarration /\ [][NextNarration]_vars

----------------------------------------------------------------------------
(* Specification of the expense total and the cost head totals of dashboard.py main
   and of analyzer.py categorize_expenses *)

MaxRecords == 2

\* narrations of internal transfers, one with a keyword and one in small
\* letters, and of other rows, one with keywords of three cost heads
PageNarrations ==
    {"NEFT DR-CNRB0002374-salary", "neft dr-cnrb0002374-x", "NEFT DR-CNRB0002375-Shop RENT",
     "UPI-JOHN DOE", "UPI-rent salary fees"}

PageRows == [narration : PageNarrations, debit : {-1, 0, 1, 2}]

PageFrames == UNION {[1..n -> PageRows] : n \in 0..MaxRecords}

InitExpense ==
    /\ TextInit
    /\ DedupeInit
    /\ XlsxInit
    /\ pc = "frame"
    /\ page_df \in PageFrames
    /\ narration = ""
    /\ upi_customer_id = <<>>
    /\ neft_customer_id = <<>>
    /\ imps_customer_id = <<>>
    /\ cost_head = <<>>
    /\ total_expense = <<>>
    /\ cost_totals = <<>>
    /\ cost_heads = <<>>

\* main lines 458-459: the Summary page
SummaryPage ==
    /\ pc = "frame"
    /\ total_expense' = <<DebitSum(Masked(page_df, ExpenseMask(page_df)), 1)>>
    /\ pc' = "summary"
    /\ UNCHANGED <<text_vars, dedupe_vars, xlsx_vars, narration, upi_customer_id,
                   neft_customer_id, imps_customer_id, cost_head, page_df, cost_totals,
                   cost_heads>>

\* main lines 696-708: the Expense page
ExpensePage ==
    /\ pc = "frame"
    /\ cost_totals' = <<CostTotals(Masked(page_df, ExpenseMask(page_df)))>>
    /\ pc' = "expense"
    /\ UNCHANGED <<text_vars, dedupe_vars, xlsx_vars, narration, upi_customer_id,
                   neft_customer_id, imps_customer_id, cost_head, page_df, total_expense,
                   cost_heads>>

\* analyzer.py categorize_expenses on the same rows
CategorizeExpenses ==
    /\ pc = "frame"
    /\ cost_heads' = CategorizeExpensesOf(page_df)
    /\ pc' = "categorized"
    /\ UNCHANGED <<text_vars, dedupe_vars, xlsx_vars, narration, upi_customer_id,
                   neft_customer_id, imps_customer_id, cost_head, page_df, total_expense,
                   cost_totals>>

NextExpense ==
    \/ SummaryPage
    \/ ExpensePage
    \/ CategorizeExpenses

SpecExpense == InitExpense /\ [][NextExpense]_vars

----------------------------------------------------------------------------
(* Properties *)

NAmounts(line) == Len(FindAmounts(line))

LastLineOf(ts) == Last(Last(ts))

\* a date-led line whose date can be parsed
StartsTransaction(line) == DateMatch(line) /\ StrptimeOk(line[1])

\* the input was one text of one line, and it has been read to its end
OneLineText == Len(texts) = 1 /\ Len(texts[1]) = 1 /\ ~reading

\* C1: every record the text Reconstructor emits, after the back-fill pass, has
\* at most one of withdrawal and deposit above zero.
C1_MutualExclusivity ==
    \A i \in 1..Len(all_transactions) :
        ~(all_transactions[i].debit > 0 /\ all_transactions[i].credit > 0)

\* C2: the Reconstructor never emits a record whose withdrawal and deposit are
\* both zero.
C2_ZeroZeroDropped ==
    \A i \in 1..Len(all_transactions) :
        all_transactions[i].debit # 0 \/ all_transactions[i].credit # 0

\* C3: when a text ends, every record that reaches the second pass with no
\* withdrawal, no deposit and a single amount, and that has a record before it,
\* gets the withdrawal |delta| if delta < 0 and else the deposit |delta|, where
\* delta is its balance less the balance of the record before it; the other
\* amount stays zero.
C3_BalanceDeltaBackFill ==
    [][(reading /\ ~reading') =>
        LET pre == Closed(transactions, current_transaction)
            post == SubSeq(all_transactions', Len(all_transactions) + 1,
                           Len(all_transactions'))
        IN /\ Len(post) = Len(pre)
           /\ \A i \in 2..Len(pre) :
                 (pre[i].transaction_amt # <<>> /\ pre[i].debit = 0 /\ pre[i].credit = 0) =>
                     LET delta == pre[i].balance - pre[i - 1].balance
                     IN IF delta < 0
                        THEN post[i].debit = -delta /\ post[i].credit = 0
                        ELSE post[i].credit = delta /\ post[i].debit = 0
    ]_vars

\* C3 happens: a text of two two-token lines has ended, and the second record's
\* withdrawal is the fall of the balance, which is not its amount token.
C3_Witness ==
    /\ ~reading /\ Len(texts) = 1 /\ Len(texts[1]) = 2
    /\ Len(all_transactions) = 2
    /\ LET r == all_transactions[2]
       IN /\ NAmounts(texts[1][1]) = 2 /\ NAmounts(texts[1][2]) = 2
          /\ r.raw_line = texts[1][2]
          /\ r.debit = all_transactions[1].balance - r.balance
          /\ r.debit > 0 /\ r.credit = 0
          /\ r.debit # FindAmounts(r.raw_line)[1].n

\* a record of the frame that a two-token line opened and the second pass filled
BackFilled(r) == NAmounts(r.raw_line) = 2 /\ r.transaction_amt = <<>>

\* C4: in the frame load_data hands on, a back-filled record that has a record
\* before it carries the change from that record's closing balance.
C4_BackFillAfterOrdering ==
    pc = "loaded" =>
        \A i \in 2..Len(df) :
            BackFilled(df[i]) =>
                LET delta == df[i].balance - df[i - 1].balance
                IN IF delta < 0
                   THEN df[i].debit = -delta /\ df[i].credit = 0
                   ELSE df[i].credit = delta /\ df[i].debit = 0

\* C5: a text that is one date-led line with exactly two amount tokens gives one
\* record, with withdrawal = first token, deposit = 0, balance = last token.
C5_FirstTransactionFallback ==
    (pc = "loaded" /\ OneLineText /\ StartsTransaction(texts[1][1])
        /\ NAmounts(texts[1][1]) = 2) =>
        LET amounts == FindAmounts(texts[1][1])
        IN /\ Len(frame) = 1
           /\ frame[1].Withdrawn = amounts[1].n
           /\ frame[1].Deposit = 0
           /\ frame[1].Balance = amounts[2].n

\* C6: a text that is one date-led line with n >= 3 amount tokens gives a record
\* with balance = t(n), withdrawal = t(n-1), deposit = t(n-2).
C6_ThreeTokenLayout ==
    (pc = "loaded" /\ OneLineText /\ StartsTransaction(texts[1][1])
        /\ NAmounts(texts[1][1]) >= 3) =>
        LET amounts == FindAmounts(texts[1][1])
            n == Len(amounts)
        IN /\ Len(frame) = 1
           /\ frame[1].Balance = amounts[n].n
           /\ frame[1].Withdrawn = amounts[n - 1].n
           /\ frame[1].Deposit = amounts[n - 2].n

\* C7: the record a date-led line with exactly two amount tokens opens has that
\* line's second token for balance, and neither a withdrawal nor a deposit.
C7_TwoTokenUndecided ==
    (reading /\ StartsTransaction(LastLineOf(texts)) /\ NAmounts(LastLineOf(texts)) = 2) =>
        /\ current # <<>>
        /\ current[1].Balance = <<FindAmounts(LastLineOf(texts))[2].n>>
        /\ current[1].Withdrawn = <<>>
        /\ current[1].Deposit = <<>>

\* C8: a DD/MM/YY string that resolves to a date resolves to the year 2000 + YY.
C8_YearIn2000s == resolved # <<>> => resolved[1].year = 2000 + YY(date_str)

\* C9: a line that starts with a DD/MM/YY string that is no calendar date, read
\* while a transaction is open, closes nothing and is appended to the narration
\* of that transaction, which stays open.
C9_BadDateContinues ==
    [][(texts' # texts /\ current_transaction # <<>>
            /\ DateMatch(LastLineOf(texts')) /\ ~StrptimeOk(LastLineOf(texts')[1])) =>
        /\ transactions' = transactions
        /\ current_transaction' # <<>>
        /\ current_transaction'[1].description =
               current_transaction[1].description \o LastLineOf(texts')
    ]_vars

\* C10: the frame handed on is sorted by date, and records of the same date
\* keep the order they had in the source.
C10_StableDateSort ==
    pc = "loaded" =>
        \A i, j \in 1..Len(df) :
            i < j => /\ DateLE(df[i].date, df[j].date)
                     /\ (df[i].date = df[j].date => df_index[i] < df_index[j])

\* the first 80 characters of the two narrations are the same
SamePrefix(a, b) ==
    \A k \in 0..(NarrationKeyLen - 1) : CharAt(NarrationStr(a), k) = CharAt(NarrationStr(b), k)

SameKey(r1, r2) ==
    r1.Date = r2.Date /\ r1.Balance = r2.Balance /\ SamePrefix(r1.Narration, r2.Narration)

\* C11: _dedupe_and_clean returns the rows of its input that no earlier row
\* matches in date, first 80 characters of the narration and closing balance,
\* in input order; no two rows it returns match, and applied to its own output
\* it returns that output.
C11_Deduplication ==
    pc \in {"deduped", "again"} =>
        LET first == {i \in 1..Len(stmt_rows) :
                         \A j \in 1..(i - 1) : ~SameKey(stmt_rows[j], stmt_rows[i])}
            nth(k) == CHOOSE i \in first : Cardinality({j \in first : j <= i}) = k
        IN /\ Len(out) = Cardinality(first)
           /\ \A k \in 1..Len(out) : out[k] = stmt_rows[nth(k)]
           /\ \A k, l \in 1..Len(out) : k # l => ~SameKey(out[k], out[l])

\* C11 happens: the third of three rows was dropped for the first, from which
\* its narration differs after the 80th character, and the second pass over
\* the two rows left kept both.
C11_Witness ==
    /\ pc = "again" /\ Len(stmt_rows) = 3
    /\ out = <<stmt_rows[1], stmt_rows[2]>>
    /\ stmt_rows[3].Narration # stmt_rows[1].Narration
    /\ SameKey(stmt_rows[1], stmt_rows[3])

\* the standard names for which _find_column finds a column
Resolved(columns) ==
    {k \in 1..Len(StandardNames) : FindColumn(columns, AliasesOf(k)) # <<>>}

\* the standard names numbered in ks, in the order of StandardNames
RECURSIVE NamesOf(_, _)
NamesOf(ks, k) ==
    IF k > Len(StandardNames) THEN <<>>
    ELSE (IF k \in ks THEN <<StandardNames[k]>> ELSE <<>>) \o NamesOf(ks, k + 1)

\* C12: _normalize_columns returns None when date, withdrawal or deposit is
\* not resolved to a column of the header, and otherwise a table whose columns
\* are exactly the resolved standard names.
C12_MandatoryColumns ==
    data_df # <<>> =>
        LET found == Resolved(data_df[1].columns)
        IN IF {1, 3, 4} \subseteq found
           THEN norm # <<>> /\ norm[1].columns = NamesOf(found, 1)
           ELSE norm = <<>>

\* the rows a sheet gives when its first row is read as its header
OwnRows(raw_df) ==
    IF raw_df = <<>> THEN <<>>
    ELSE LET normalized == NormalizeColumns(Frame(HeaderRowToColumns(raw_df), Tail(raw_df)))
         IN IF normalized = <<>> THEN <<>>
            ELSE ProcessNorm(MergeNarrationRows(normalized[1]))

\* the first sheet is empty or its mandatory columns are not resolved
FirstSheetUnusable ==
    \/ all_sheets[1] = <<>>
    \/ NormalizeColumns(Frame(HeaderRowToColumns(all_sheets[1]), Tail(all_sheets[1]))) = <<>>

\* C13: an unusable sheet contributes no rows and the other sheets of the
\* workbook still contribute theirs: after an empty or unusable first sheet, a
\* later sheet with a header and rows of its own is not skipped.
C13_UnusableSheetIsolation ==
    /\ sheet_index >= 1 /\ FirstSheetUnusable => contributed[1] = <<>>
    /\ \A i \in 2..sheet_index :
           FirstSheetUnusable /\ OwnRows(all_sheets[i]) # <<>> => contributed[i] # <<>>

\* the text a narration cell adds to a merged narration
Trimmed(cell) == IF cell.k = "nan" THEN "" ELSE Strip(CellStr(cell))

\* the date cell holds a date: it is not NaN, empty, blank or a null-like word
DateBearing(cell) ==
    cell.k # "nan" /\ Lower(Strip(CellStr(cell))) \notin {"", "nan", "nat", "none"}

\* the trimmed narrations of the rows i..j of the frame, one after the other
RECURSIVE Joined(_, _, _)
Joined(table, i, j) ==
    IF i > j THEN ""
    ELSE (IF HasColumn(table.columns, "narration")
          THEN Trimmed(table.rows[i][Where(table.columns, "narration")[1]]) ELSE "")
         \o Joined(table, i + 1, j)

\* C14: _merge_narration_rows puts out one row for each date-bearing row, in
\* input order, with the cells of that row and as narration its trimmed
\* narration followed, with nothing between, by the trimmed narrations of the
\* rows without a date that follow it; rows before the first date-bearing row
\* are dropped.
C14_ContinuationMerge ==
    pc = "merged" =>
        LET table == norm[1]
            n == Len(table.rows)
            dated == {i \in 1..n : DateBearing(table.rows[i][1])}
            nth(k) == CHOOSE i \in dated : Cardinality({j \in dated : j <= i}) = k
            last(i) == IF \E j \in dated : j > i
                       THEN (CHOOSE j \in dated : j > i /\ \A l \in dated : l > i => j <= l) - 1
                       ELSE n
            result == merged[1]
        IN /\ Len(result.rows) = Cardinality(dated)
           /\ \A k \in 1..Len(result.rows) :
                  \A c \in 1..Len(result.columns) :
                      IF result.columns[c] = "narration"
                      THEN result.rows[k][c] = Str(Joined(table, nth(k), last(nth(k))))
                      ELSE result.rows[k][c] = table.rows[nth(k)][c]

\* C14 happens: the continuation row 'XYZ corp' after the dated row
\* 'Payment to' gave one row with the narration 'Payment toXYZ corp', and a
\* row without a date before the first dated row was dropped.
C14_Witness ==
    /\ pc = "merged"
    /\ Len(norm[1].rows) = 3
    /\ ~DateBearing(norm[1].rows[1][1])
    /\ norm[1].rows[2][2] = Str("Payment to")
    /\ norm[1].rows[3][2] = Str("XYZ corp")
    /\ Len(merged[1].rows) = 1
    /\ merged[1].rows[1][2] = Str("Payment toXYZ corp")

\* the narration, trimmed and in upper case, starts with the prefix
Begins(text, prefix) == StartsWith(Upper(Strip(text)), prefix)

\* the positions of the hyphens of a text, from 0, and the k-th of them
Hyphens(text) == {i \in 0..(Len(text) - 1) : CharAt(text, i) = "-"}

NthHyphen(text, k) ==
    CHOOSE i \in Hyphens(text) : Cardinality({j \in Hyphens(text) : j <= i}) = k

\* C15: for a narration starting with UPI (with NEFT) the identifier is the
\* text before the second hyphen, or the whole narration when it has fewer
\* than two hyphens; a narration starting with none of UPI, NEFT and IMPS has
\* no identifier, and no narration has an identifier from two extractors.
C15_UpiNeftIdentifier ==
    pc = "customer" =>
        LET id == IF Cardinality(Hyphens(narration)) < 2 THEN narration
                  ELSE Slice(narration, 0, NthHyphen(narration, 2))
        IN /\ Begins(narration, "UPI") => upi_customer_id = <<id>>
           /\ Begins(narration, "NEFT") => neft_customer_id = <<id>>
           /\ ~Begins(narration, "UPI") /\ ~Begins(narration, "NEFT") /\ ~Begins(narration, "IMPS")
                  => upi_customer_id = <<>> /\ neft_customer_id = <<>> /\ imps_customer_id = <<>>
           /\ \/ upi_customer_id = <<>> /\ neft_customer_id = <<>>
              \/ upi_customer_id = <<>> /\ imps_customer_id = <<>>
              \/ neft_customer_id = <<>> /\ imps_customer_id = <<>>

\* C15 happens: the narration of the example has four hyphens and its
\* identifier ends before the second.
C15_Witness ==
    /\ pc = "customer"
    /\ narration = "UPI-JOHN DOE-johndoe@bank-REF123-milk payment"
    /\ upi_customer_id = <<"UPI-JOHN DOE">>
    /\ neft_customer_id = <<>>
    /\ imps_customer_id = <<>>

\* C16: for a narration starting with IMPS the identifier is the text between
\* the second and the third hyphen, or the whole narration when it has no
\* third hyphen.
C16_ImpsIdentifier ==
    pc = "customer" /\ Begins(narration, "IMPS") =>
        imps_customer_id =
            <<IF Cardinality(Hyphens(narration)) < 3 THEN narration
              ELSE Slice(narration, NthHyphen(narration, 2) + 1, NthHyphen(narration, 3))>>

\* C16 happens: the narration of the example has five hyphens and its
\* identifier is the text between the second and the third.
C16_Witness ==
    /\ pc = "customer"
    /\ narration = "IMPS-506016885554-REKHA MITTAL-SBIN-XXXXXXX4686-MILK PAYMENT"
    /\ imps_customer_id = <<"REKHA MITTAL">>

\* the keywords of every entry in upper case
UpperKeywords ==
    [h \in 1..Len(COST_HEADS) |->
        [k \in 1..Len(COST_HEADS[h].keywords) |-> Upper(COST_HEADS[h].keywords[k])]]

\* for each entry of the table, whether one of its keywords is in the text,
\* both in upper case
Hits(upper) ==
    List([h \in 1..Len(COST_HEADS) |->
             \E k \in 1..Len(COST_HEADS[h].keywords) : Contains(upper, UpperKeywords[h][k])])

\* head is the name of the first entry that hits, and 'Other' exactly when
\* none does
FirstHit(hits, head) ==
    /\ \A h \in 1..Len(hits) :
           hits[h] /\ (\A g \in 1..(h - 1) : ~hits[g]) => head = <<COST_HEADS[h].name>>
    /\ head = <<"Other">> <=> \A h \in 1..Len(hits) : ~hits[h]

\* C17: the cost head of a narration is the name of the first entry of the
\* table with a keyword that is in the narration, letter case apart, and
\* 'Other' exactly when no entry has one.
C17_CostHead ==
    pc = "costs" => FirstHit(Hits(Upper(narration)), cost_head)

\* C17 happens: a narration with the rent keyword before a salary keyword is
\* given the entry Salary, which is earlier in the table.
C17_Witness ==
    /\ pc = "costs"
    /\ narration = "POS-Shop RENT-CNRB0000103"
    /\ cost_head = <<"Salary">>

\* the positions of the rows with a withdrawal above zero whose narration is
\* not that of an internal transfer
Counted(table) ==
    {i \in 1..Len(table) :
        table[i].debit > 0 /\ ~Begins(table[i].narration, "NEFT DR-CNRB0002374")}

\* the sum of the withdrawals of the rows at the positions in idx
RECURSIVE Withdrawals(_, _)
Withdrawals(table, idx) ==
    IF idx = {} THEN 0
    ELSE LET i == CHOOSE i \in idx : TRUE
         IN table[i].debit + Withdrawals(table, idx \ {i})

\* each total is the sum of the withdrawals of the counted rows of its head
TotalsOfCounted(table, totals, counted, heads) ==
    \A name \in CostOrder :
        totals[name] = Withdrawals(table, {i \in counted : heads[i] = name})

\* C18: the expense total and every cost head total are sums over the rows
\* with a withdrawal above zero and a narration that is not an internal
\* transfer; no other row adds to any of them.
C18_ExpenseExclusion ==
    /\ pc = "summary" => total_expense = <<Withdrawals(page_df, Counted(page_df))>>
    /\ pc = "expense" =>
           TotalsOfCounted(page_df, cost_totals[1], Counted(page_df) \cup {},
                           CostHeadColumn(page_df))

\* C18 happens: an internal transfer with the keyword salary and the
\* withdrawal 2 added nothing to Salary or to any total, and the withdrawal
\* of the other row is the total of Rent.
C18_Witness ==
    /\ pc = "expense"
    /\ page_df = <<[narration |-> "NEFT DR-CNRB0002374-salary", debit |-> 2],
                   [narration |-> "NEFT DR-CNRB0002375-Shop RENT", debit |-> 1]>>
    /\ cost_totals[1]["Salary"] = 0
    /\ cost_totals[1]["Rent"] = 1

\* parse_transactions on the lines of one text
RECURSIVE ParseFrom(_, _, _)
ParseFrom(lines, trs, cur) ==
    IF lines = <<>> THEN ParseResult(trs, cur)
    ELSE ParseFrom(Tail(lines), AnalyzerStep(trs, cur, Head(lines))[1],
                   AnalyzerStep(trs, cur, Head(lines))[2])

ParseTransactions(lines) == ParseFrom(lines, <<>>, <<>>)

\* the raw line of a record, 'DD/MM/YY narration deposit withdrawal balance',
\* the year written with its last two digits
RawLine(rec) ==
    <<D(rec.date.day, rec.date.month, rec.date.year % 100)>> \o rec.description
        \o <<A(rec.credit), A(rec.debit), A(rec.balance)>>

RawLines(trs) == [i \in 1..Len(trs) |-> RawLine(trs[i])]

SameRecord(r1, r2) ==
    /\ r1.date = r2.date /\ r1.description = r2.description
    /\ r1.debit = r2.debit /\ r1.credit = r2.credit /\ r1.balance = r2.balance

\* C19: the records of a text, written back as raw lines and parsed again,
\* are the same records: same dates, narrations, withdrawals, deposits and
\* balances.
C19_RoundTrip ==
    pc = "parse" /\ ~reading /\ Len(texts) = 1 =>
        LET again == ParseTransactions(RawLines(all_transactions))
        IN /\ Len(again) = Len(all_transactions)
           /\ \A i \in 1..Len(again) : SameRecord(again[i], all_transactions[i])

\* the line opens a transaction in parse_transactions
Opens(line) ==
    ~AnalyzerSkips(line) /\ DateMatch(line) /\ AnalyzerDateOk(line[1]) /\ NAmounts(line) >= 2

\* the records parse_transactions returned for the text that has just ended
Returned == SubSeq(all_transactions', Len(all_transactions) + 1, Len(all_transactions'))

\* C20: the open transaction is emitted when the next line that starts a
\* transaction arrives and by no other line, at most one transaction is open,
\* and at the end of the text the records returned are one for each line
\* that opened a transaction, in the order of those lines.
C20_StateMachine ==
    [][/\ texts' # texts =>
              /\ IF StartsTransaction(LastLineOf(texts')) /\ current_transaction # <<>>
                 THEN /\ Len(transactions') = Len(transactions) + 1
                      /\ Front(transactions') = transactions
                      /\ Last(transactions').raw_line = current_transaction[1].raw_line
                 ELSE transactions' = transactions
              /\ Len(current_transaction') <= 1
       /\ reading /\ ~reading' =>
              /\ Len(Returned) = Len(SelectSeq(Last(texts), Opens))
              /\ \A i \in 1..Len(Returned) :
                     Returned[i].raw_line = SelectSeq(Last(texts), Opens)[i]
    ]_vars

\* the narration, balance and amount fields of two records are the same
SameFields(r1, r2) ==
    /\ r1.description = r2.description /\ r1.balance = r2.balance
    /\ r1.debit = r2.debit /\ r1.credit = r2.credit
    /\ r1.transaction_amt = r2.transaction_amt

\* C21: a record emitted at a date-led line has the narration, balance and
\* amounts the open record had before that line, and no line changes a
\* record emitted before it.
C21_ImmutableAfterClose ==
    [][texts' # texts =>
           /\ Len(transactions') >= Len(transactions)
           /\ \A i \in 1..Len(transactions) : SameFields(transactions'[i], transactions[i])
           /\ Len(transactions') > Len(transactions) =>
                  SameFields(Last(transactions'), current_transaction[1])
    ]_vars

\* the line without its amount tokens
Residual(line) == SelectSeq(line, LAMBDA tok : ~IsAmt(tok))

\* a line without a leading date that carries two or more amounts
AmountBearing(line) == line # <<>> /\ ~IsDate(line[1]) /\ NAmounts(line) >= 2

\* C22: a line without a date and with two or more amounts, read while a
\* transaction is open, sets the open record's balance to its last amount,
\* its amounts by the number of amounts (two: the single amount; three or
\* more: withdrawal and deposit), and adds the line's text without the
\* amounts to the open record's narration.
C22_AmountContinuation ==
    [][(texts' # texts /\ current_transaction # <<>> /\ AmountBearing(LastLineOf(texts'))) =>
           LET amounts == FindAmounts(LastLineOf(texts'))
               n == Len(amounts)
           IN /\ current_transaction' # <<>>
              /\ current_transaction'[1].balance = amounts[n].n
              /\ n = 2 => current_transaction'[1].transaction_amt = <<amounts[1].n>>
              /\ n >= 3 => /\ current_transaction'[1].debit = amounts[n - 1].n
                           /\ current_transaction'[1].credit = amounts[n - 2].n
              /\ current_transaction'[1].description =
                     current_transaction[1].description \o Residual(LastLineOf(texts'))
    ]_vars

\* C23: after a date-led line with one amount or none a transaction of the
\* line's date is open, so that later lines attach to it; with one amount
\* its balance is that amount and its withdrawal and deposit are not set.
C23_FewTokenStart ==
    [][(texts' # texts /\ StartsTransaction(LastLineOf(texts'))
                       /\ NAmounts(LastLineOf(texts')) <= 1) =>
           /\ current_transaction' # <<>>
           /\ current_transaction'[1].date = AnalyzerDate(LastLineOf(texts')[1])
           /\ NAmounts(LastLineOf(texts')) = 1 =>
                  /\ current_transaction'[1].balance = FindAmounts(LastLineOf(texts'))[1].n
                  /\ current_transaction'[1].debit = 0
                  /\ current_transaction'[1].credit = 0
    ]_vars

\* the line is a heading: it has Date, Narration and one of Withdrawal and
\* Closing, or Statement of account, Account Branch or Page No
IsHeading(line) ==
    \/ /\ HasText(line, "Date") /\ HasText(line, "Narration")
       /\ HasText(line, "Withdrawal") \/ HasText(line, "Closing")
    \/ HasText(line, "Statement of account")
    \/ HasText(line, "Account Branch")
    \/ HasText(line, "Page No")

\* C24: a heading line changes nothing in either parser: the records emitted
\* and the open transaction, with its narration, are what they were.
C24_HeadingsDiscarded ==
    [][(texts' # texts /\ IsHeading(LastLineOf(texts'))) =>
           /\ transactions' = transactions
           /\ current_transaction' = current_transaction
           /\ sp_transactions' = sp_transactions
           /\ current' = current
    ]_vars

\* the text has no blank at its start or end and no two blanks in a row
Normalised(text) == \A i \in 1..Len(text) : text[i] # Gap

\* the stripped line has no date at its start, no amount and is no heading
AmountFree(line) ==
    line # <<>> /\ ~IsDate(line[1]) /\ NAmounts(line) = 0 /\ ~IsHeading(line)

\* C25: the narration of every emitted record has no blank at either end and
\* no two blanks in a row; a line that opens a transaction gives it the text
\* after the date without the amounts, blanks collapsed; a continuation line
\* without amounts is added stripped after one blank.
C25_NarrationNormalised ==
    [][texts' # texts =>
           LET line == StripBlanks(LastLineOf(texts'))
           IN /\ \A i \in 1..Len(transactions') : Normalised(transactions'[i].description)
              /\ \A i \in 1..Len(sp_transactions') : Normalised(sp_transactions'[i].Narration)
              /\ StartsTransaction(line) /\ NAmounts(line) >= 2 =>
                     /\ current_transaction' # <<>>
                     /\ current_transaction'[1].description = Collapse(Residual(Tail(line)))
                     /\ current' # <<>>
                     /\ current'[1].Narration = Collapse(Residual(Tail(line)))
              /\ AmountFree(line) /\ current_transaction # <<>> =>
                     /\ current_transaction' # <<>>
                     /\ current_transaction'[1].description =
                            Join(current_transaction[1].description, line)
              /\ AmountFree(line) /\ current # <<>> =>
                     /\ current' # <<>>
                     /\ current'[1].Narration = Join(current[1].Narration, line)
    ]_vars

\* the positions of the columns whose stripped, lower-cased name is one of
\* the stripped, lower-cased aliases of standard name k
EqualColumns(columns, k) ==
    {i \in 1..Len(columns) :
        \E a \in 1..Len(AliasesOf(k)) : Normalize(columns[i]) = Normalize(AliasesOf(k)[a])}

\* C26: when a column of the header equals an alias of a field, stripped and
\* in lower case, the field is resolved to such a column, not to a column
\* that only holds an alias or is held by one.
C26_EqualityFirst ==
    pc = "normalized" =>
        \A k \in 1..Len(StandardNames) :
            EqualColumns(data_df[1].columns, k) # {} =>
                \E i \in EqualColumns(data_df[1].columns, k) :
                    found_col[k] = <<data_df[1].columns[i]>>

\* the rows of a normalized frame: its continuation rows are merged, then
\* the dates and amounts are typed
MergedThenTyped(normalized) ==
    IF normalized = <<>> THEN <<>> ELSE ProcessNorm(MergeNarrationRows(normalized[1]))

\* C27: the first sheet is read under its own header row and establishes the
\* header names when it is usable; a later sheet is read, all its rows, under
\* those header names when it has as many columns as there are header names,
\* and gives no rows when it has another number of columns or no header names
\* were established; the rows a sheet gives are those of its normalized
\* frame with the continuation rows merged before typing, and the rows given
\* by the sheets before stay as they are.
C27_HeaderReuse ==
    [][sheet_index' = sheet_index + 1 =>
           LET raw_df == all_sheets[sheet_index']
           IN /\ header_names' # <<>> =>
                     header_names' = <<HeaderRowToColumns(all_sheets[1])>>
              /\ IF raw_df = <<>> THEN contributed' = Append(contributed, <<>>)
                 ELSE IF sheet_index = 0
                 THEN /\ data_df' = <<Frame(HeaderRowToColumns(raw_df), Tail(raw_df))>>
                      /\ contributed' = Append(contributed, MergedThenTyped(norm'))
                 ELSE IF header_names # <<>> /\ Len(raw_df[1]) = Len(header_names[1])
                 THEN /\ data_df' = <<Frame(header_names[1], raw_df)>>
                      /\ contributed' = Append(contributed, MergedThenTyped(norm'))
                 ELSE contributed' = Append(contributed, <<>>)
    ]_vars

\* C27 happens: after a first sheet with a header row, a sheet of five
\* columns without a header gave one row whose narration holds the text of
\* its continuation row, and a sheet of four columns gave no row.
C27_Witness ==
    /\ sheet_index = 3
    /\ all_sheets = <<<<HeaderRow, DatedRow, ContinuationRow>>,
                      <<LaterDatedRow, ContinuationRow>>, <<FourCellRow>>>>
    /\ header_names = <<HeaderRowToColumns(<<HeaderRow>>)>>
    /\ Len(contributed[2]) = 1
    /\ contributed[2][1].narration = "BXYZ corp"
    /\ contributed[2][1].credit = 2
    /\ contributed[3] = <<>>

\* the lines of a text, each stripped
Stripped(lines) == [i \in 1..Len(lines) |-> StripBlanks(lines[i])]

\* _parse_transactions_from_text and _dedupe_and_clean on the lines of one text
RECURSIVE ParserFrom(_, _, _)
ParserFrom(lines, trs, cur) ==
    IF lines = <<>> THEN DedupeAndClean(ParserResult(trs, cur))
    ELSE ParserFrom(Tail(lines), ParserStep(trs, cur, Head(lines))[1],
                    ParserStep(trs, cur, Head(lines))[2])

\* the records of the first n texts, each text parsed on its own
RECURSIVE RecordsAlone(_, _)
RecordsAlone(ts, n) ==
    IF n = 0 THEN <<>>
    ELSE RecordsAlone(ts, n - 1) \o ParseTransactions(Stripped(ts[n]))

RECURSIVE RowsAlone(_, _)
RowsAlone(ts, n) ==
    IF n = 0 THEN <<>>
    ELSE RowsAlone(ts, n - 1) \o ParserFrom(Stripped(ts[n]), <<>>, <<>>)

\* the rows a sheet gives under the column names: its continuation rows are
\* merged, then the dates and amounts are typed
RowsUnder(names, rows) == MergedThenTyped(NormalizeColumns(Frame(names, rows)))

\* the header names a workbook establishes, <<>> for none
NamesOfBook(book) ==
    IF book[1] # <<>> /\ NormalizeColumns(Frame(HeaderRowToColumns(book[1]), Tail(book[1]))) # <<>>
    THEN <<HeaderRowToColumns(book[1])>> ELSE <<>>

\* the frames of the sheets i.. of a workbook read on its own
RECURSIVE FramesFrom(_, _, _)
FramesFrom(book, i, names) ==
    IF i > Len(book) THEN <<>>
    ELSE LET rows == IF book[i] = <<>> THEN <<>>
                     ELSE IF i = 1
                     THEN RowsUnder(HeaderRowToColumns(book[1]), Tail(book[1]))
                     ELSE IF names # <<>> /\ Len(book[i][1]) = Len(names[1])
                     THEN RowsUnder(names[1], book[i])
                     ELSE <<>>
         IN (IF rows = <<>> THEN <<>> ELSE <<rows>>) \o FramesFrom(book, i + 1, names)

\* the frames of the first n workbooks, each read on its own
RECURSIVE FramesAlone(_, _)
FramesAlone(files, n) ==
    IF n = 0 THEN <<>>
    ELSE FramesAlone(files, n - 1) \o FramesFrom(files[n], 1, NamesOfBook(files[n]))

\* C28: the records of every source are those the source gives when it is
\* processed on its own: after each text the lists of both text parsers are
\* the records of the texts so far, each parsed alone, and after each
\* workbook the list of frames is the frames of the workbooks so far, each
\* read alone.
C28_SourceIndependence ==
    /\ pc = "parse" /\ ~reading =>
           /\ all_transactions = RecordsAlone(texts, Len(texts))
           /\ all_txns = RowsAlone(texts, Len(texts))
    /\ pc = "file" => all_dfs = FramesAlone(uploaded_files, file_index)

\* C28 happens: a workbook whose first sheet is empty, read after a workbook
\* that established header names, gave no frame, and the frames are those of
\* the first workbook.
C28_Witness ==
    /\ pc = "file"
    /\ file_index = 2
    /\ uploaded_files = <<<<<<HeaderRow, DatedRow, ContinuationRow>>>>,
                          <<<<>>, <<LaterDatedRow, ContinuationRow>>>>>>
    /\ Len(all_dfs) = 1
    /\ header_names = <<>>

\* C29 as stated: every row of a statement is in the list returned, the same
\* in date, narration, withdrawal, deposit and closing balance, so that a row
\* is dropped only for a row identical to it in all of these.
C29_NoDistinctRowLost ==
    pc = "deduped" =>
        \A i \in 1..Len(stmt_rows) : \E k \in 1..Len(out) : out[k] = stmt_rows[i]

\* C29 as amended: every row returned is a row of the statement, and every
\* row of the statement has a row in the list returned that is the same in
\* date, in the first 80 characters of the narration and in closing balance,
\* so that a row is dropped only for a row identical to it in these three.
C29_NoDistinctKeyLost ==
    pc = "deduped" =>
        /\ \A k \in 1..Len(out) : \E i \in 1..Len(stmt_rows) : out[k] = stmt_rows[i]
        /\ \A i \in 1..Len(stmt_rows) :
               \E k \in 1..Len(out) : k <= i /\ SameKey(out[k], stmt_rows[i])

\* C29 happens: of two rows that differ in the withdrawal alone the second
\* was dropped.
C29_Witness ==
    /\ pc = "deduped"
    /\ Len(stmt_rows) = 2
    /\ stmt_rows[1].Withdrawn # stmt_rows[2].Withdrawn
    /\ SameKey(stmt_rows[1], stmt_rows[2])
    /\ out = <<stmt_rows[1]>>

\* the sum of the numbers f gives to the names in names
RECURSIVE SumOver(_, _)
SumOver(f, names) ==
    IF names = {} THEN 0
    ELSE LET name == CHOOSE name \in names : TRUE
         IN f[name] + SumOver(f, names \ {name})

\* the names of the dashboard's table of cost heads
TableNames == {COST_HEADS[h].name : h \in 1..Len(COST_HEADS)}

\* the positions of the rows with a withdrawal above zero
WithDebit(table) == {i \in 1..Len(table) : table[i].debit > 0}

\* C30: every expense record is counted in exactly one cost head: the totals
\* of the Expense page over the entries of the table and Other add up to the
\* sum of the withdrawals of the expense records, and the amounts and the
\* counts of categorize_expenses add up to the sum and to the number of its
\* expense records.
C30_NoDoubleCounting ==
    /\ pc = "expense" =>
           /\ DOMAIN cost_totals[1] = TableNames \cup {"Other"}
           /\ SumOver(cost_totals[1], TableNames) + cost_totals[1]["Other"]
                  = Withdrawals(page_df, Counted(page_df))
    /\ pc = "categorized" =>
           /\ SumOver([name \in DOMAIN cost_heads |-> cost_heads[name].amount],
                      DOMAIN cost_heads)
                  = Withdrawals(page_df, WithDebit(page_df))
           /\ SumOver([name \in DOMAIN cost_heads |-> cost_heads[name].count],
                      DOMAIN cost_heads)
                  = Cardinality(WithDebit(page_df))

\* C30 happens: a row whose narration has keywords of three cost heads was
\* counted once by categorize_expenses, in the first of them, beside a row of
\* no keyword.
C30_Witness ==
    /\ pc = "categorized"
    /\ page_df = <<[narration |-> "UPI-rent salary fees", debit |-> 2],
                   [narration |-> "UPI-JOHN DOE", debit |-> 1]>>
    /\ DOMAIN cost_heads = {"Salary & Wages", "Other"}
    /\ cost_heads["Salary & Wages"] = [amount |-> 2, count |-> 1]

\* the same row on the Expense page: its withdrawal is in Salary alone
C30_WitnessPage ==
    /\ pc = "expense"
    /\ page_df = <<[narration |-> "UPI-rent salary fees", debit |-> 2],
                   [narration |-> "UPI-JOHN DOE", debit |-> 1]>>
    /\ cost_totals[1]["Salary"] = 2
    /\ cost_totals[1]["Rent"] = 0
    /\ cost_totals[1]["Miscellaneous"] = 0
    /\ cost_totals[1]["Other"] = 1


====
